---- MODULE Spec2Model ----
(***************************************************************************)
(* Model of the weather-window front end (Parades-Oh-Guardian).            *)
(*                                                                         *)
(* Part 1: AlternativeDateFinder (components/EnhancedLocationInput.jsx,    *)
(* second component of the file): candidate pool, chunked scoring across   *)
(* animation frames, top-K retention, partial publication, timeout and     *)
(* effect cleanup.                                                         *)
(* Part 2: normalizeResults (App).                                         *)
(*                                                                         *)
(* Units.  Weather readings are integers in their natural unit.  Scores    *)
(* and thresholds are kept in HALF units (value * 2) because the source    *)
(* uses a 0.5 mm threshold and a 1.5 weight: a safetyScore of 200 here is  *)
(* the source's 100.  Timestamps are hours since the epoch.  Frame times   *)
(* are milliseconds.                                                       *)
(***************************************************************************)
EXTENDS Integers, Sequences, FiniteSets, TLC

\* ------------------------------------------------------------------ bounds
MaxDays == 45
MaxRuns == 2

\* ------------------------------------------------------- program constants
topK == 40
InitialChunk == 10
MinChunk == 6
MaxChunk == 60
ChunkGrow == 4
FastMs == 6
SlowMs == 18
FlushMs == 40
PoolCap == 150
HoursPerDay == 24
DisplayCount == 10

Min2(a, b) == IF a < b THEN a ELSE b
Max2(a, b) == IF a > b THEN a ELSE b

\* ------------------------------------------------------------ requirements
Activities ==
  {"general", "outdoor_sports", "photography", "construction", "agriculture", "travel"}

\* activityRequirements, every threshold doubled (half units); hmin = 0
\* stands for a humidity band without a min key (undefined and 0 are both
\* falsy in the guard of the humidity-min check).
activityRequirements ==
  [a \in Activities |->
     CASE a = "general"        -> [tmin |-> 10,  tmax |-> 70, pmax |-> 10, wmax |-> 50, hmin |-> 0, hmax |-> 160]
       [] a = "outdoor_sports" -> [tmin |-> 20,  tmax |-> 60, pmax |-> 4,  wmax |-> 40, hmin |-> 0, hmax |-> 140]
       [] a = "photography"    -> [tmin |-> 0,   tmax |-> 80, pmax |-> 2,  wmax |-> 60, hmin |-> 0, hmax |-> 170]
       [] a = "construction"   -> [tmin |-> -10, tmax |-> 64, pmax |-> 1,  wmax |-> 50, hmin |-> 0, hmax |-> 150]
       [] a = "agriculture"    -> [tmin |-> 10,  tmax |-> 70, pmax |-> 20, wmax |-> 60, hmin |-> 60, hmax |-> 180]
       [] OTHER                -> [tmin |-> 16,  tmax |-> 64, pmax |-> 6,  wmax |-> 70, hmin |-> 0, hmax |-> 160]]

\* activityRequirements[selectedActivity] || activityRequirements['general']
RequirementsFor(a) ==
  IF a \in Activities THEN activityRequirements[a] ELSE activityRequirements["general"]

\* ---------------------------------------------------------- numeric fields
\* A numeric field of a record is an integer, or NoValue when the record
\* does not carry it (undefined).
NoValue == -1000000

\* d.k
Read(d, k) == IF k \in DOMAIN d THEN d[k] ELSE NoValue

\* a ?? b
Coalesce(a, b) == IF a # NoValue THEN a ELSE b

\* ToBoolean of a numeric field: undefined and 0 are falsy.
NonZero(x) == x # NoValue /\ x # 0

\* The comparison with equality included.
ExceedsOrEquals(x, lim) == x # NoValue /\ 2 * x >= lim

\* x > lim and x < lim for a threshold in half units; a comparison with
\* undefined is false.
Exceeds(x, lim) == x # NoValue /\ 2 * x > lim
Below(x, lim) == x # NoValue /\ 2 * x < lim

\* Math.min(100, score) without the lower clamp.
ClampAboveOnly(floor, score) == Min2(200, score)

\* Math.max(floor, Math.min(100, score)), in half points.
ClampScore(floor, score) == Max2(floor, Min2(200, score))

\* ----------------------------------------------------------------- scoring
\* calculateSafetyScore: 100 minus the weighted excess per violated
\* dimension, clamped to [0,100]; here in half points.  A factor is pushed
\* for every check whose condition holds.
\* A humidity penalty of twice the excess.
HumidPenaltyDouble(excess) == excess * 2

\* (weather.humidity - requirements.humidity.max) * 1.5
HumidPenalty(excess) == (excess * 3) \div 2

calculateSafetyScore(w, req) ==
  LET t == w.temperature
      p == w.precipitation
      v == w.windSpeed
      h == w.humidity
      isCold  == Below(t, req.tmin)
      isHot   == Exceeds(t, req.tmax)
      isRain  == Exceeds(p, req.pmax)
      isWind  == Exceeds(v, req.wmax)
      isDry   == req.hmin # 0 /\ Below(h, req.hmin)
      isHumid == Exceeds(h, req.hmax)
      cold  == IF isCold THEN (req.tmin - 2 * t) * 3 ELSE 0
      hot   == IF isHot THEN (2 * t - req.tmax) * 2 ELSE 0
      rain  == IF isRain THEN (2 * p - req.pmax) * 5 ELSE 0
      wind  == IF isWind THEN (2 * v - req.wmax) * 2 ELSE 0
      dry   == IF isDry THEN (req.hmin - 2 * h) ELSE 0
      humid == IF isHumid THEN HumidPenalty(2 * h - req.hmax) ELSE 0
      score == 200 - cold - hot - rain - wind - dry - humid
      factors == (IF isCold THEN <<"Too cold">> ELSE <<>>)
                 \o (IF isHot THEN <<"Too hot">> ELSE <<>>)
                 \o (IF isRain THEN <<"Rain risk">> ELSE <<>>)
                 \o (IF isWind THEN <<"Too windy">> ELSE <<>>)
                 \o (IF isDry THEN <<"Too dry">> ELSE <<>>)
                 \o (IF isHumid THEN <<"Too humid">> ELSE <<>>)
  IN [score |-> ClampScore(0, score), factors |-> factors]

Recommendation(score) ==
  IF score >= 160 THEN "excellent"
  ELSE IF score >= 120 THEN "good"
  ELSE IF score >= 80 THEN "fair" ELSE "poor"

\* The entry built for one scored weather record.
ScoredEntry(w, req) ==
  LET s == calculateSafetyScore(w, req)
  IN [date |-> w.dateObj, weather |-> w, safetyScore |-> s.score,
      safetyFactors |-> s.factors, recommendation |-> Recommendation(s.score)]

\* ------------------------------------------------------------------- dates
\* new Date('YYYY-MM-DD'): UTC midnight of that day (hours since epoch).
ParseDate(day) == day * HoursPerDay

\* date.toISOString().split('T')[0]: the UTC calendar day of a timestamp.
IsoDay(ts) == ts \div HoursPerDay

\* ----------------------------------------------------------------- sorting
\* Array.prototype.sort((a, b) => b.safetyScore - a.safetyScore): a stable
\* sort, descending by safetyScore.  The comparator puts a before b when
\* a's score is the higher one.
ByScoreDesc(a, b) == a.safetyScore > b.safetyScore

SortDesc(s) == SortSeq(s, ByScoreDesc)

RemoveAt(s, i) == SubSeq(s, 1, i - 1) \o SubSeq(s, i + 1, Len(s))

\* --------------------------------------------------------------- test data
\* One daily record of weatherData.dailyAnalysis (camelCase shape).  The
\* readings vary with the day so that scores differ, some days violate
\* several thresholds and a few lie outside every temperature band.
DailyRecord(day, i) ==
  [date |-> day,
   temperature |-> IF i % 11 = 0 THEN 50 ELSE 14 + ((i * 7) % 19),
   precipitation |-> (i * 3) % 8,
   windSpeed |-> 8 + ((i * 5) % 23),
   humidity |-> 35 + ((i * 13) % 56)]

\* n consecutive days starting at firstDay.
DailySeries(firstDay, n) == [i \in 1..n |-> DailyRecord(firstDay + i - 1, i)]

\* An externally supplied alternative (weatherData.alternativeDates entry).
ExternalRecord(day, k) ==
  [date |-> day, temperature |-> 18 + k, precipitation |-> k % 3,
   windSpeed |-> 12, humidity |-> 0]

\* Date.now() at the time the effect runs: noon of day Today.
Today == 100
NowTs == Today * HoursPerDay + 12

NoData == [dailyAnalysis |-> <<>>, alternativeDates |-> <<>>]

\* A forward-looking forecast (first record tomorrow) and a historical
\* window (last record yesterday), each of MaxDays records.
Forecast == DailySeries(Today + 1, MaxDays)
History == DailySeries(Today - MaxDays, MaxDays)

\* External lists: a date of the daily data followed by a new date, and the
\* same new date twice.
KnownAndNew(firstDay) ==
  <<ExternalRecord(firstDay, 1), ExternalRecord(firstDay + MaxDays + 1, 2)>>
NewTwice(firstDay) ==
  <<ExternalRecord(firstDay + MaxDays + 1, 1), ExternalRecord(firstDay + MaxDays + 1, 2)>>

\* weatherData as the parent passes it at mount.
WeatherDataSets ==
  { NoData,
    [dailyAnalysis |-> Forecast, alternativeDates |-> KnownAndNew(Today + 1)],
    [dailyAnalysis |-> Forecast, alternativeDates |-> NewTwice(Today + 1)],
    [dailyAnalysis |-> History, alternativeDates |-> <<>>],
    [dailyAnalysis |-> History, alternativeDates |-> KnownAndNew(Today - MaxDays)] }

\* The results of a new analysis the parent can replace weatherData with.
ReanalysisSets ==
  { [dailyAnalysis |-> History, alternativeDates |-> NewTwice(Today - MaxDays)] }

\* ------------------------------------------------------------ mappedDaily
\* rawWind * 3.6; the m/s readings of the data are multiples of 5, so the
\* product is a whole number.
ToKmh(x) == (x * 36) \div 10

\* d.conditions || {}
Conditions(d) == IF "conditions" \in DOMAIN d THEN d.conditions ELSE <<>>

\* The useMemo mapping of dailyAnalysis: primitive fields plus dateObj.
MapDaily(d) ==
  LET conditions == Conditions(d)
      temperature == Coalesce(Coalesce(Read(conditions, "temperature"),
                                       Read(d, "temperature_avg")), Read(d, "temperature"))
      precipitation == Coalesce(Coalesce(Read(conditions, "precipitation"),
                                         Read(d, "precipitation")), 0)
      rawWind == Coalesce(Coalesce(Coalesce(Read(conditions, "wind_speed"),
                                            Read(d, "wind_speed")), Read(d, "windSpeed")), 0)
      windSpeed == IF NonZero(Read(d, "wind_speed")) \/ NonZero(Read(conditions, "wind_speed"))
                   THEN ToKmh(rawWind) ELSE rawWind
      humidity == Coalesce(Coalesce(Read(conditions, "humidity"), Read(d, "humidity")), 0)
  IN [date |-> d.date, dateObj |-> ParseDate(d.date), temperature |-> temperature,
      precipitation |-> precipitation, windSpeed |-> windSpeed, humidity |-> humidity]

\* mapDailyToWeather of the earlier AlternativeDateFinder: the same fields,
\* the wind multiplied by 3.6 when the record itself carries wind_speed.
mapDailyToWeather(d) ==
  LET conditions == Conditions(d)
      rawWind == Coalesce(Coalesce(Coalesce(Read(conditions, "wind_speed"),
                                            Read(d, "wind_speed")), Read(d, "windSpeed")), 0)
  IN [date |-> d.date, dateObj |-> ParseDate(d.date),
      temperature |-> Coalesce(Coalesce(Read(conditions, "temperature"),
                                        Read(d, "temperature_avg")), Read(d, "temperature")),
      precipitation |-> Coalesce(Coalesce(Read(conditions, "precipitation"),
                                          Read(d, "precipitation")), 0),
      windSpeed |-> IF NonZero(Read(d, "wind_speed")) THEN ToKmh(rawWind) ELSE rawWind,
      humidity |-> Coalesce(Coalesce(Read(conditions, "humidity"), Read(d, "humidity")), 0)]

mappedDailyOf(wd) == [i \in 1..Len(wd.dailyAnalysis) |-> MapDaily(wd.dailyAnalysis[i])]

\* A fallback that is never taken.
HorizonOnly(horizon, mapped) == horizon

\* if (!candidates.length) candidates = mappedDaily
HorizonOrAll(horizon, mapped) == IF horizon = <<>> THEN mapped ELSE horizon

\* A pre-filter without the typeof test.
InBandOrUnknown(w, req) ==
  ~Below(w.temperature, req.tmin - 30) /\ ~Exceeds(w.temperature, req.tmax + 20)

\* The pre-filter: a numeric temperature, at most 15 below min and 10 above
\* max (30 and 20 half units).
InBand(w, req) ==
  /\ w.temperature # NoValue
  /\ ~Below(w.temperature, req.tmin - 30)
  /\ ~Exceeds(w.temperature, req.tmax + 20)

\* buildCandidatePool: horizon filter with fallback to the full data, then
\* the temperature pre-filter, then the cap.
buildCandidatePool(mapped, activity, range) ==
  LET req == RequirementsFor(activity)
      endTs == NowTs + range * HoursPerDay
      InHorizon(w) == w.dateObj >= NowTs /\ w.dateObj <= endTs
      base == HorizonOrAll(SelectSeq(mapped, InHorizon), mapped)
      Kept(w) == InBand(w, req)
      kept == SelectSeq(base, Kept)
  IN IF Len(kept) > PoolCap THEN SubSeq(kept, 1, PoolCap) ELSE kept

\* ------------------------------------------------------------ top-K array
\* Index of the first entry with the lowest safetyScore (the linear scan
\* with a strict comparison).
\* An eviction that always drops the entry just pushed.
LastIdx(s) == Len(s)

WorstIdx(s) ==
  CHOOSE w \in 1..Len(s) :
    /\ \A i \in 1..Len(s) : s[i].safetyScore >= s[w].safetyScore
    /\ \A i \in 1..(w - 1) : s[i].safetyScore > s[w].safetyScore

\* scored.push(entry) followed by the eviction on overflow.
PushBounded(scored, entry) ==
  LET pushed == Append(scored, entry)
  IN IF Len(pushed) > topK THEN RemoveAt(pushed, WorstIdx(pushed)) ELSE pushed

\* The for-loop of processChunk over candidates[index .. end-1] (1-based
\* here: positions index+1 .. end).
RECURSIVE ScoreRange(_, _, _, _, _)
ScoreRange(scored, cands, req, i, end) ==
  IF Len(scored) <= topK /\ i >= end THEN scored
  ELSE ScoreRange(PushBounded(scored, ScoredEntry(cands[i + 1], req)), cands, req, i + 1, end)

\* An adaptation whose window includes its two limits.
AdaptChunkInclusive(chunk, dur) ==
  IF dur =< FastMs /\ chunk < MaxChunk THEN chunk + ChunkGrow
  ELSE IF dur >= SlowMs /\ chunk > MinChunk THEN Max2(MinChunk, (chunk * 7) \div 10)
  ELSE chunk

\* The batch size after a batch that took dur milliseconds.
AdaptChunk(chunk, dur) ==
  IF dur < FastMs /\ chunk < MaxChunk THEN chunk + ChunkGrow
  ELSE IF dur > SlowMs /\ chunk > MinChunk THEN Max2(MinChunk, (chunk * 7) \div 10)
  ELSE chunk

\* The flush test of processChunk, evaluated after the for-loop.
FlushDue(gap, index, end) == gap > FlushMs \/ index = end

\* A flushPartial that publishes the retained array as it stands.
flushUnsorted(scored) == scored

\* flushPartial: the list handed to setAlternativeDates.
flushPartial(scored) == SortDesc(scored)

\* mappedDaily.find(x => x.date === dateStr): first match, or <<>> for none.
FindDaily(mapped, day) ==
  LET hits == { i \in 1..Len(mapped) : mapped[i].date = day }
  IN IF hits = {} THEN <<>> ELSE <<mapped[CHOOSE i \in hits : \A j \in hits : i <= j]>>

\* The record built for an external alternative that has no daily record:
\* its own camelCase fields, with humidity || 60.
FallbackWeather(d) ==
  [date |-> d.date, dateObj |-> ParseDate(d.date), temperature |-> Read(d, "temperature"),
   precipitation |-> Read(d, "precipitation"), windSpeed |-> Read(d, "windSpeed"),
   humidity |-> IF NonZero(Read(d, "humidity")) THEN d.humidity ELSE 60]

\* The weather record scored for an external alternative: the daily record
\* of that date when there is one, else the fallback record.
ExternalWeather(mapped, d) ==
  LET found == FindDaily(mapped, d.date)
  IN IF found # <<>> THEN found[1] ELSE FallbackWeather(d)

\* mergeBackendAlternatives raises a TypeError when it scores an external
\* alternative against activityRequirements[selectedActivity] and the
\* activity is not a key of the table (no fallback to 'general' there).
MergeThrows(backendAlt, activity) == backendAlt # <<>> /\ activity \notin Activities

\* mergeBackendAlternatives: external alternatives are scored, those whose
\* ISO day is already among the generated entries are filtered out, the rest
\* is appended and the whole list sorted.
mergeBackendAlternatives(generated, backendAlt, mapped, activity) ==
  IF backendAlt = <<>> THEN generated
  ELSE LET existingDates == { IsoDay(generated[i].date) : i \in 1..Len(generated) }
           scoredAlt == [i \in 1..Len(backendAlt) |->
                           [ScoredEntry(ExternalWeather(mapped, backendAlt[i]),
                                        activityRequirements[activity])
                              EXCEPT !.date = ParseDate(backendAlt[i].date)]]
           IsNew(a) == IsoDay(a.date) \notin existingDates
       IN SortDesc(generated \o SelectSeq(scoredAlt, IsNew))

\* ------------------------------------------------------------------- state
VARIABLES
  mounted,           \* the component is mounted
  weatherData,       \* prop
  selectedActivity,  \* useState
  searchRange,       \* useState
  alternativeDates,  \* useState
  loading,           \* useState
  timedOut,          \* useState
  progress,          \* useState
  computeAbortRef,   \* useRef: the one abort flag shared by every effect run
  runs,              \* the closures of the effect runs (incrementalScore locals,
                     \* pending frame callback, pending timeout)
  cur,               \* number of effect runs so far = id of the latest run
  device,            \* environment: how fast the device scores a batch
  lastFlush          \* observation of the latest step: "early" / "late" when it
                     \* held a batch after the first, with candidates left, that
                     \* published at most / more than FlushMs after the previous
                     \* publication of its run (lastFrameTs), else "none"

scanVars == <<mounted, weatherData, selectedActivity, searchRange, alternativeDates,
              loading, timedOut, progress, computeAbortRef, runs, cur, device, lastFlush>>

RunIds == 1..MaxRuns

\* One effect run.  state: "idle" (not started), "scoring" (a frame callback
\* is pending; data, activity and candidates are what its closure
\* captured), "aborted" (the callback returned at the abort check),
\* "published" (onDone returned), "failed" (onDone threw).  timer: the
\* run's setTimeout is pending.
NoRun ==
  [state |-> "idle", data |-> NoData, activity |-> "general", candidates |-> <<>>,
   scored |-> <<>>,
   index |-> 0, dynamicChunk |-> InitialChunk, sinceFlush |-> 0, timer |-> FALSE]

\* Milliseconds a batch takes on the device the page runs on (under, inside
\* or over the target window), and milliseconds between the end of a batch
\* and the next frame callback.
Devices == {"fast", "steady", "slow"}
ChunkDuration(d) == IF d = "fast" THEN 2 ELSE IF d = "steady" THEN 10 ELSE 28
FrameDelays == {16}

\* The range buttons and the activity buttons the user presses.
SearchRanges == {14, 30}
ButtonActivities == {"general", "agriculture"}

\* activityType values the parent mounts the component with: a key of
\* activityRequirements, or one of the parent's own activity ids.
InitialActivities == {"general", "wedding"}

\* A cleanup that leaves the flag as it is.
AbortLeftByCleanup == computeAbortRef

\* The value of computeAbortRef.current after the effect's cleanup.
AbortAfterCleanup == TRUE

\* The value of computeAbortRef.current after the effect body has started.
AbortAfterEffectStart == FALSE

\* A processChunk that does not look at the flag on entry.
AbortIgnoredAtEntry == FALSE

\* processChunk's first line: return at once when the flag is raised.
AbortedAtEntry == computeAbortRef

ScanInit ==
  /\ mounted = FALSE
  /\ weatherData \in WeatherDataSets
  /\ selectedActivity \in InitialActivities
  /\ searchRange = 14
  /\ alternativeDates = <<>>
  /\ loading = FALSE
  /\ timedOut = FALSE
  /\ progress = [processed |-> 0, total |-> 0]
  /\ computeAbortRef = FALSE
  /\ runs = [r \in RunIds |-> NoRun]
  /\ cur = 0
  /\ device \in Devices
  /\ lastFlush = "none"

\* The effect body for a render with the given activity and range, preceded
\* by the cleanup of the previous run when there is one.
RunEffect(activity, range, data) ==
  LET pool == buildCandidatePool(mappedDailyOf(data), activity, range)
      id == cur + 1
      cleaned == IF cur = 0 THEN runs ELSE [runs EXCEPT ![cur].timer = FALSE]
  IN /\ cur < MaxRuns
     /\ cur' = id
     /\ loading' = TRUE
     /\ timedOut' = FALSE
     /\ computeAbortRef' = AbortAfterEffectStart
     /\ progress' = [processed |-> 0, total |-> Len(pool)]
     /\ runs' = [cleaned EXCEPT ![id] =
                   [NoRun EXCEPT !.state = "scoring", !.data = data, !.activity = activity,
                                 !.candidates = pool, !.timer = TRUE]]
     /\ lastFlush' = "none"
     /\ UNCHANGED <<alternativeDates, device>>

\* First render: the effect runs after mount.
Mount ==
  /\ ~mounted /\ cur = 0
  /\ mounted' = TRUE
  /\ RunEffect(selectedActivity, searchRange, weatherData)
  /\ UNCHANGED <<weatherData, selectedActivity, searchRange>>

\* The parent re-renders with another location: the effect re-runs.
ChangeLocation ==
  /\ mounted /\ cur > 0
  /\ RunEffect(selectedActivity, searchRange, weatherData)
  /\ UNCHANGED <<mounted, weatherData, selectedActivity, searchRange>>

\* The parent re-renders with the results of a new analysis: mappedDaily
\* changes and the effect re-runs.
ChangeWeatherData(wd) ==
  /\ mounted /\ cur > 0
  /\ wd # weatherData
  /\ weatherData' = wd
  /\ RunEffect(selectedActivity, searchRange, wd)
  /\ UNCHANGED <<mounted, selectedActivity, searchRange>>

\* The activity buttons and the range buttons exist in the results view only.
SelectActivity(a) ==
  /\ mounted /\ cur > 0 /\ ~loading
  /\ a # selectedActivity
  /\ selectedActivity' = a
  /\ RunEffect(a, searchRange, weatherData)
  /\ UNCHANGED <<mounted, weatherData, searchRange>>

SetSearchRange(d) ==
  /\ mounted /\ cur > 0 /\ ~loading
  /\ d # searchRange
  /\ searchRange' = d
  /\ RunEffect(selectedActivity, d, weatherData)
  /\ UNCHANGED <<mounted, weatherData, selectedActivity>>

\* The setTimeout callback of run r.
Timeout(r) ==
  /\ runs[r].timer
  /\ timedOut' = TRUE
  /\ computeAbortRef' = TRUE
  /\ runs' = [runs EXCEPT ![r].timer = FALSE]
  /\ lastFlush' = "none"
  /\ UNCHANGED <<mounted, weatherData, selectedActivity, searchRange, alternativeDates,
                 loading, progress, cur, device>>

\* Unmount: the cleanup of the latest effect run.
Unmount ==
  /\ mounted
  /\ mounted' = FALSE
  /\ computeAbortRef' = AbortAfterCleanup
  /\ runs' = [runs EXCEPT ![cur].timer = FALSE]
  /\ lastFlush' = "none"
  /\ UNCHANGED <<weatherData, selectedActivity, searchRange, alternativeDates,
                 loading, timedOut, progress, cur, device>>

\* The part of the state a frame callback reads and writes.
Shared ==
  [alternativeDates |-> alternativeDates, loading |-> loading, progress |-> progress,
   runs |-> runs, lastFlush |-> "none"]

\* The requestAnimationFrame callback of run r (processChunk) applied to the
\* shared state st.  delay is the time since the previous batch of the run
\* ended; the for-loop takes the device's batch duration.  The whole
\* callback: the abort check, scoring, batch-size adaptation, progress, the
\* flush, and then either the next frame request or the final sort, the
\* final flush and onDone (merge, publish, clearTimeout, setLoading(false));
\* an exception raised by the merge ends the callback right after the final
\* flush.
ProcessChunk(st, r, delay) ==
  LET run == st.runs[r]
      dur == ChunkDuration(device)
      total == Len(run.candidates)
      end == Min2(run.index + run.dynamicChunk, total)
      scored == ScoreRange(run.scored, run.candidates,
                           RequirementsFor(run.activity), run.index, end)
      index == end
      gap == run.sinceFlush + delay + dur
      flush == FlushDue(gap, index, end)
      more == index < total /\ ~computeAbortRef
      sorted == SortDesc(scored)
      merged == mergeBackendAlternatives(sorted, run.data.alternativeDates,
                                         mappedDailyOf(run.data), run.activity)
      merging == ~more /\ ~computeAbortRef
      throws == merging /\ MergeThrows(run.data.alternativeDates, run.activity)
  IN IF run.state # "scoring" THEN st
     ELSE IF AbortedAtEntry THEN [st EXCEPT !.runs[r].state = "aborted"]
     ELSE [alternativeDates |->
             IF more
             THEN (IF flush THEN flushPartial(scored) ELSE st.alternativeDates)
             ELSE (IF merging /\ ~throws THEN merged ELSE flushPartial(sorted)),
           loading |-> IF more \/ throws THEN st.loading ELSE FALSE,
           progress |-> [processed |-> index, total |-> total],
           runs |-> [st.runs EXCEPT
             ![r].scored = IF more THEN scored ELSE sorted,
             ![r].index = index,
             ![r].dynamicChunk = AdaptChunk(run.dynamicChunk, dur),
             ![r].sinceFlush = IF flush THEN 0 ELSE Min2(gap, FlushMs + 1),
             ![r].state = IF more THEN "scoring"
                          ELSE IF throws THEN "failed" ELSE "published",
             ![r].timer = IF more \/ throws THEN run.timer ELSE FALSE],
           lastFlush |->
             IF st.lastFlush = "early" \/ ~(more /\ flush /\ run.index > 0)
             THEN st.lastFlush
             ELSE IF gap > FlushMs THEN "late" ELSE "early"]

\* The callbacks of runs r..MaxRuns, in the order they were requested.
RECURSIVE RunCallbacks(_, _, _)
RunCallbacks(st, r, delay) ==
  IF r > MaxRuns THEN st ELSE RunCallbacks(ProcessChunk(st, r, delay), r + 1, delay)

\* One animation frame: the browser runs every pending frame callback, in
\* the order of the requests, before any other task (timer, render, effect)
\* gets its turn.  A run requests its callback when it starts and again at
\* the end of each batch, so the order is the order of the runs.
AnimationFrame(delay) ==
  /\ \E r \in RunIds : runs[r].state = "scoring"
  /\ LET st == RunCallbacks(Shared, 1, delay)
     IN /\ alternativeDates' = st.alternativeDates
        /\ loading' = st.loading
        /\ progress' = st.progress
        /\ runs' = st.runs
        /\ lastFlush' = st.lastFlush
  /\ UNCHANGED <<mounted, weatherData, selectedActivity, searchRange,
                 timedOut, computeAbortRef, cur, device>>

ScanNext ==
  \/ Mount
  \/ ChangeLocation
  \/ \E wd \in ReanalysisSets : ChangeWeatherData(wd)
  \/ \E a \in ButtonActivities : SelectActivity(a)
  \/ \E d \in SearchRanges : SetSearchRange(d)
  \/ \E r \in RunIds : Timeout(r)
  \/ Unmount
  \/ \E delay \in FrameDelays : AnimationFrame(delay)

\* ======================================================================
\* normalizeResults (App).  JavaScript values are records [t, v]: t is the
\* kind of value, v its payload (a number, a string, a boolean, a sequence
\* of values, or a function from keys to values).
Undefined == [t |-> "undefined", v |-> 0]
Null == [t |-> "null", v |-> 0]
NaN == [t |-> "nan", v |-> 0]
Num(n) == [t |-> "number", v |-> n]
Str(x) == [t |-> "string", v |-> x]
Bool(b) == [t |-> "boolean", v |-> b]
Arr(q) == [t |-> "array", v |-> q]
Obj(f) == [t |-> "object", v |-> f]

\* A key that an object literal leaves out.
Absent == [t |-> "absent", v |-> 0]
NoKeys == [k \in {} |-> Undefined]
Field(k, x) == IF x = Absent THEN NoKeys ELSE (k :> x)

\* typeof x
TypeOf(x) ==
  CASE x.t \in {"number", "nan"} -> "number"
    [] x.t \in {"object", "array", "null"} -> "object"
    [] OTHER -> x.t

\* ToBoolean(x)
Truthy(x) ==
  CASE x.t \in {"undefined", "null", "nan"} -> FALSE
    [] x.t = "number" -> x.v # 0
    [] x.t = "string" -> x.v # ""
    [] x.t = "boolean" -> x.v
    [] OTHER -> TRUE

\* a || b
Or(a, b) == IF Truthy(a) THEN a ELSE b

\* x.k for a value x that is neither null nor undefined, k not being a
\* built-in property: the own property of an object, else undefined.
Get(x, k) == IF x.t = "object" /\ k \in DOMAIN x.v THEN x.v[k] ELSE Undefined

\* The own enumerable properties copied by { ...x }.
OwnProps(x) ==
  CASE x.t = "object" -> x.v
    [] x.t = "array" -> [k \in { ToString(i - 1) : i \in 1..Len(x.v) } |->
                           x.v[CHOOSE i \in 1..Len(x.v) : ToString(i - 1) = k]]
    [] OTHER -> NoKeys

\* { ...f, ...g }
Spread(f, g) == [k \in DOMAIN f \cup DOMAIN g |-> IF k \in DOMAIN g THEN g[k] ELSE f[k]]

EMPTY_RESULTS ==
  [bestDays |-> Arr(<<>>),
   weatherWindow |-> Obj([totalDays |-> Num(0), suitableDays |-> Num(0),
                          riskLevel |-> Str("unknown")]),
   thresholdAnalysis |-> Obj(NoKeys),
   nasaDataSources |-> Arr(<<>>),
   location |-> Str(""),
   dateRange |-> Obj([from |-> Str(""), to |-> Str("")])]

\* The test without its !data half: typeof null is 'object'.
IsInvalidTypeofOnly(data) == TypeOf(data) # "object"

\* !data || typeof data !== 'object'
IsInvalid(data) == ~Truthy(data) \/ TypeOf(data) # "object"

\* x.k raises a TypeError when x is null or undefined.
GetThrows(x) == x.t \in {"undefined", "null"}

\* The value thrown out of a call.
Thrown == [t |-> "thrown", v |-> "TypeError"]

\* normalizeResults(data) raises: one of its property reads (data.bestDays
\* ..., weatherWindow.totalDays ...) is made on null or undefined.
normalizeThrows(data) ==
  /\ ~IsInvalid(data)
  /\ \/ GetThrows(data)
     \/ GetThrows(Or(Or(Or(Get(data, "weatherWindow"), Get(data, "weather_window_summary")),
                        Get(data, "weather_window")), Obj(NoKeys)))

InvalidResult == Obj(Spread(EMPTY_RESULTS, [error |-> Str("Invalid data structure")]))

normalizeResults(data) ==
  IF IsInvalid(data)
  THEN InvalidResult
  ELSE LET bestDays == Or(Or(Get(data, "bestDays"), Get(data, "best_days")), Arr(<<>>))
           weatherWindow ==
             Or(Or(Or(Get(data, "weatherWindow"), Get(data, "weather_window_summary")),
                   Get(data, "weather_window")), Obj(NoKeys))
       IN Obj(Spread(Spread(EMPTY_RESULTS, OwnProps(data)),
            [bestDays |-> IF bestDays.t = "array" THEN bestDays ELSE Arr(<<>>),
             weatherWindow |-> Obj(
               [totalDays |-> Or(Or(Get(weatherWindow, "totalDays"),
                                    Get(weatherWindow, "total_days")), Num(0)),
                suitableDays |-> Or(Or(Get(weatherWindow, "suitableDays"),
                                       Get(weatherWindow, "suitable_days")), Num(0)),
                riskLevel |-> Or(Or(Get(weatherWindow, "riskLevel"),
                                    Get(weatherWindow, "risk_level")), Str("unknown"))])]))

\* ------------------------------------------------------------ test inputs
\* weatherWindow objects: camelCase and snake_case keys, present or not,
\* with values of the right and of the wrong type.
WindowObjects ==
  { Obj(Field("totalDays", td) @@ Field("total_days", tds) @@ Field("suitableDays", sd)
        @@ Field("suitable_days", tds) @@ Field("riskLevel", rl) @@ Field("risk_level", rls)) :
      td \in {Absent, Num(31), Num(0), Str("31")},
      tds \in {Absent, Num(30)},
      sd \in {Absent, Num(5)},
      rl \in {Absent, Str("low"), Str(""), Num(2)},
      rls \in {Absent, Str("high")} }

SnakeWindow ==
  Obj([total_days |-> Num(28), suitable_days |-> Num(7), risk_level |-> Str("medium")])

ResponseObjects ==
  { Obj(Field("bestDays", bd) @@ Field("best_days", bds) @@ Field("weatherWindow", ww)
        @@ Field("weather_window_summary", wws)) :
      bd \in {Absent, Arr(<<Str("day-a")>>), Str("oops"), Null},
      bds \in {Absent, Arr(<<Str("day-b")>>)},
      ww \in WindowObjects \cup {Absent, Str("window"), Num(3)},
      wws \in {Absent, SnakeWindow} }

NormInputs ==
  {Undefined, Null, NaN, Num(0), Num(5), Str(""), Str("text"), Bool(TRUE), Bool(FALSE),
   Arr(<<>>), Arr(<<Num(1)>>)} \cup ResponseObjects

\* ------------------------------------------------------------------- state
VARIABLES
  raw,      \* the response body handed to normalizeResults
  results   \* useState: null until the response has been normalized

normVars == <<raw, results>>

NormInit ==
  /\ raw \in NormInputs
  /\ results = Null

\* setResults(normalizeResults(raw))
Normalize ==
  /\ results = Null
  /\ results' = IF normalizeThrows(raw) THEN Thrown ELSE normalizeResults(raw)
  /\ UNCHANGED raw

\* The next analysis: setResults(null), then another response body arrives.
NextResponse(d) ==
  /\ results # Null
  /\ raw' = d
  /\ results' = Null

NormNext == Normalize \/ \E d \in NormInputs : NextResponse(d)

\* ======================================================================
\* Scoring of one day: calculateSafetyScore on the two paths of
\* AlternativeDateFinder and calculateSuitabilityScore of the two app pages.
AppActivities == {"wedding", "hiking", "farming", "festival"}

\* activities[].thresholds of App and ComprehensiveApp (the same table in
\* both), every threshold doubled.
activityThresholds ==
  [a \in AppActivities |->
     CASE a = "wedding"  -> [tmax |-> 60, tmin |-> 10,  wmax |-> 30, pmax |-> 20]
       [] a = "hiking"   -> [tmax |-> 70, tmin |-> -10, wmax |-> 50, pmax |-> 40]
       [] a = "farming"  -> [tmax |-> 80, tmin |-> -20, wmax |-> 60, pmax |-> 100]
       [] OTHER          -> [tmax |-> 56, tmin |-> 16,  wmax |-> 40, pmax |-> 10]]

\* The penalties of calculateSuitabilityScore with the given weights for
\* too hot and too cold (rain 2, wind 1.5 in both variants).
SuitabilityRaw(temp, precip, wind, th, hotWeight, coldWeight) ==
  200 - (IF Exceeds(temp, th.tmax) THEN (2 * temp - th.tmax) * hotWeight ELSE 0)
      - (IF Below(temp, th.tmin) THEN (th.tmin - 2 * temp) * coldWeight ELSE 0)
      - (IF Exceeds(precip, th.pmax) THEN (2 * precip - th.pmax) * 2 ELSE 0)
      - (IF Exceeds(wind, th.wmax) THEN ((2 * wind - th.wmax) * 3) \div 2 ELSE 0)

\* App.calculateSuitabilityScore: 50 without thresholds, else clamped to
\* [0,100].
calculateSuitabilityScore(temp, precip, wind, activity) ==
  IF activity \notin AppActivities THEN 100
  ELSE ClampScore(0, SuitabilityRaw(temp, precip, wind, activityThresholds[activity], 5, 3))

\* ComprehensiveApp.calculateSuitabilityScore: 75 without thresholds, else
\* clamped to [50,100].
calculateSuitabilityScoreComprehensive(temp, precip, wind, activity) ==
  IF activity \notin AppActivities THEN 150
  ELSE ClampScore(100, SuitabilityRaw(temp, precip, wind, activityThresholds[activity], 3, 2))

\* ------------------------------------------------------------ test inputs
\* Readings of one day: values on, next to and far beyond the thresholds
\* of the tables, and missing values.  Wind values are multiples of 5.
TempValues == {NoValue, -1000, -10, -5, 0, 4, 5, 8, 10, 20, 28, 30, 32, 35, 36, 40, 1000}
PrecipValues == {NoValue, 0, 1, 2, 3, 5, 10, 11, 20, 50, 1000}
WindValues == {NoValue, 0, 5, 15, 20, 25, 30, 35, 40, 1000}
HumValues == {NoValue, 0, 29, 30, 50, 70, 75, 80, 85, 90, 91, 1000}

\* A calm day inside every band.
Baseline == [temp |-> 20, precip |-> 0, wind |-> 5, hum |-> 50]

\* One dimension away from the calm day, or every dimension missing or
\* extreme, or several dimensions slightly outside their bands.
Readings ==
  { [Baseline EXCEPT !.temp = t] : t \in TempValues }
  \cup { [Baseline EXCEPT !.precip = x] : x \in PrecipValues }
  \cup { [Baseline EXCEPT !.wind = x] : x \in WindValues }
  \cup { [Baseline EXCEPT !.hum = x] : x \in HumValues }
  \cup [temp : {NoValue, -1000, 1000}, precip : {NoValue, 1000},
        wind : {NoValue, 1000}, hum : {NoValue, 1000}]
  \cup [temp : {4, 36}, precip : {0, 3}, wind : {5, 35}, hum : {29, 91}]

\* How a record carries its readings: camelCase fields (wind in km/h),
\* snake_case fields (wind_speed in m/s), or a conditions object.
Shapes == {"camel", "snake", "conditions"}

ScoredActivities == Activities \cup AppActivities \cup {""}

ScoreSamples == [reading : Readings, shape : Shapes, activity : ScoredActivities]

\* An object property that is left out when the value is missing.
Opt(k, x) == IF x = NoValue THEN <<>> ELSE (k :> x)

\* The record of day `day` carrying the readings in the given shape.
RawRecord(day, r, shape) ==
  CASE shape = "camel" ->
         ("date" :> day) @@ Opt("temperature", r.temp) @@ Opt("precipitation", r.precip)
           @@ Opt("windSpeed", r.wind) @@ Opt("humidity", r.hum)
    [] shape = "snake" ->
         ("date" :> day) @@ Opt("temperature_avg", r.temp) @@ Opt("precipitation", r.precip)
           @@ Opt("wind_speed", r.wind) @@ Opt("humidity", r.hum)
    [] OTHER ->
         ("date" :> day) @@
         ("conditions" :> (Opt("temperature", r.temp) @@ Opt("precipitation", r.precip)
                             @@ Opt("wind_speed", r.wind) @@ Opt("humidity", r.hum)))

\* ------------------------------------------------------------------- state
VARIABLES
  sample,   \* the day being scored: readings, record shape, activity
  outcome   \* what the scoring functions returned for it

scoreVars == <<sample, outcome>>

NotScored == [scored |-> FALSE]

\* calculateSafetyScore(mappedWeather, activityRequirements[selectedActivity])
\* of mergeBackendAlternatives: the table lookup has no fallback, and the
\* read of requirements.temperature raises for an activity outside it.
ScoreExternal(d, activity) ==
  IF activity \notin Activities
  THEN [threw |-> TRUE, weather |-> FallbackWeather(d), result |-> [score |-> 0, factors |-> <<>>]]
  ELSE [threw |-> FALSE, weather |-> FallbackWeather(d),
        result |-> calculateSafetyScore(FallbackWeather(d), activityRequirements[activity])]

\* calculateSafetyScore(cand, requirements) of incrementalScore, requirements
\* falling back to 'general'.
ScorePooled(d, activity) ==
  [threw |-> FALSE, weather |-> MapDaily(d),
   result |-> calculateSafetyScore(MapDaily(d), RequirementsFor(activity))]

ScoreInit ==
  /\ sample \in ScoreSamples
  /\ outcome = NotScored

\* The day is scored on every path.
ScoreDay ==
  /\ ~outcome.scored
  /\ LET d == RawRecord(Today + 1, sample.reading, sample.shape)
         r == sample.reading
     IN outcome' = [scored |-> TRUE,
                    pool |-> ScorePooled(d, sample.activity),
                    external |-> ScoreExternal(d, sample.activity),
                    matched |-> ExternalWeather(<<MapDaily(d)>>, d),
                    legacy |-> mapDailyToWeather(d),
                    app |-> calculateSuitabilityScore(r.temp, r.precip, r.wind, sample.activity),
                    comprehensive |-> calculateSuitabilityScoreComprehensive(
                                        r.temp, r.precip, r.wind, sample.activity)]
  /\ UNCHANGED sample

\* Another day is taken up.
NextSample(sm) ==
  /\ outcome.scored
  /\ sample' = sm
  /\ outcome' = NotScored

ScoreNext == ScoreDay \/ \E sm \in ScoreSamples : NextSample(sm)

\* The scorer before any day is scored.
ScoreIdle ==
  /\ sample = [reading |-> Baseline, shape |-> "camel", activity |-> "general"]
  /\ outcome = NotScored

\* ======================================================================
\* Recent searches of EnhancedLocationInput (both versions of the
\* component): component state and the localStorage item
\* weatherRecentSearches.
MaxCities == 6
KeepOthers == 4
KeepRecent == 5

\* A record of kazakhstanCitiesDatabase.cities: ids and names are unique.
CityRecord(i) ==
  [id |-> i, name |-> <<"city", i>>, coordinates |-> [lat |-> 40 + i, lng |-> 60 + i]]

Cities == { CityRecord(i) : i \in 1..MaxCities }

\* list.slice(0, n)
Take(list, n) == SubSeq(list, 1, Min2(n, Len(list)))

\* JSON.stringify of a list of city records: the text, here one tuple of
\* the members' values per record in key order.
JSONStringify(list) ==
  [i \in 1..Len(list) |->
     <<list[i].id, list[i].name, list[i].coordinates.lat, list[i].coordinates.lng>>]

\* JSON.parse of such a text: fresh records.
JSONParse(text) ==
  [i \in 1..Len(text) |->
     [id |-> text[i][1], name |-> text[i][2],
      coordinates |-> [lat |-> text[i][3], lng |-> text[i][4]]]]

\* localStorage.getItem on a key that was never set returns null.
NoItem == [saved |-> FALSE, text |-> <<>>]

\* The other recent entries kept by handleCitySelect, without the cap.
OthersById(recent, city) ==
  LET Differs(r) == r.id # city.id IN SelectSeq(recent, Differs)

\* recentSearches.filter(r => r.id !== city.id).slice(0, 4)
KeptOthers(recent, city) ==
  LET Differs(r) == r.id # city.id IN Take(SelectSeq(recent, Differs), KeepOthers)

\* handleCitySelect (EnhancedLocationInputNew): the new list.
NewRecentSearches(recent, city) == <<city>> \o KeptOthers(recent, city)

\* addToRecentSearches (EnhancedLocationInput): the new list.
addToRecentSearches(recent, city) ==
  LET Differs(r) == r.name # city.name IN Take(<<city>> \o SelectSeq(recent, Differs), KeepRecent)

VARIABLES
  component,       \* which version of the component the page renders
  inputMounted,    \* the component is mounted and its mount effect has run
  recentSearches,  \* useState
  storedSearches,  \* localStorage item weatherRecentSearches
  selections       \* observation: every city selected so far, latest first

recentVars == <<component, inputMounted, recentSearches, storedSearches, selections>>

Components == {"EnhancedLocationInputNew", "EnhancedLocationInput"}

RecentInit ==
  /\ component \in Components
  /\ inputMounted = FALSE
  /\ recentSearches = <<>>
  /\ storedSearches = NoItem
  /\ selections = <<>>

\* Mount: useState([]) and the mount effect that loads the stored list.
MountInput ==
  /\ ~inputMounted
  /\ inputMounted' = TRUE
  /\ recentSearches' = IF storedSearches.saved THEN JSONParse(storedSearches.text) ELSE <<>>
  /\ UNCHANGED <<component, storedSearches, selections>>

\* handleCitySelect(city): state and storage get the new list.
handleCitySelect(city) ==
  /\ inputMounted
  /\ LET updated == IF component = "EnhancedLocationInputNew"
                    THEN NewRecentSearches(recentSearches, city)
                    ELSE addToRecentSearches(recentSearches, city)
     IN /\ recentSearches' = updated
        /\ storedSearches' = [saved |-> TRUE, text |-> JSONStringify(updated)]
  /\ selections' = <<city>> \o OthersById(selections, city)
  /\ UNCHANGED <<component, inputMounted>>

\* The page is left or reloaded: component state is lost, storage stays.
UnmountInput ==
  /\ inputMounted
  /\ inputMounted' = FALSE
  /\ recentSearches' = <<>>
  /\ UNCHANGED <<component, storedSearches, selections>>

RecentNext ==
  \/ MountInput
  \/ \E city \in Cities : handleCitySelect(city)
  \/ UnmountInput

\* The location input before the page is opened for the first time.
RecentIdle ==
  /\ component = "EnhancedLocationInputNew"
  /\ inputMounted = FALSE
  /\ recentSearches = <<>>
  /\ storedSearches = NoItem
  /\ selections = <<>>

\* ======================================================================
\* handleAnalyze of the two app pages (App and ComprehensiveApp).  Dates
\* are day numbers, 0 standing for an empty date field.
Pages == {"App", "ComprehensiveApp"}

Forms == [location : {"", "Almaty"}, dateFrom : 0..2, dateTo : 0..2]

\* !location || !dateFrom || !dateTo
FieldMissing(f) == f.location = "" \/ f.dateFrom = 0 \/ f.dateTo = 0

\* new Date(dateFrom) >= new Date(dateTo)
EndNotAfterStart(f) == f.dateFrom >= f.dateTo

\* EMPTY_RESULTS of ComprehensiveApp.
EMPTY_RESULTS_COMPREHENSIVE ==
  [success |-> Bool(FALSE),
   bestDays |-> Arr(<<>>),
   weatherWindow |-> Obj([totalDays |-> Num(0), suitableDays |-> Num(0),
                          riskLevel |-> Str("unknown")]),
   thresholdAnalysis |-> Obj(NoKeys),
   nasaDataSources |-> Arr(<<>>),
   mlPredictions |-> Arr(<<>>),
   alternativeDates |-> Arr(<<>>),
   disasterRisks |-> Obj(NoKeys),
   location |-> Str(""),
   coordinates |-> Obj([lat |-> Num(0), lng |-> Num(0)])]

\* generateRealisticKazakhstanWeather: the mock analysis of App; its random
\* members are the arguments.
generateRealisticKazakhstanWeather(f, suitableDays, riskLevel, confidence) ==
  Obj([location |-> Str(f.location),
       dateRange |-> Obj([from |-> Num(f.dateFrom), to |-> Num(f.dateTo)]),
       activity |-> Str(""),
       bestDays |-> Arr(<<Obj([date |-> Num(f.dateFrom), suitabilityScore |-> Num(100)])>>),
       weatherWindow |-> Obj([totalDays |-> Num(f.dateTo - f.dateFrom),
                              suitableDays |-> Num(suitableDays),
                              riskLevel |-> Str(riskLevel)]),
       thresholdAnalysis |-> Obj([temperature |-> Obj(NoKeys)]),
       confidence |-> Num(confidence),
       nasaDataSources |-> Arr(<<Str("NASA POWER API"), Str("GPM IMERG"),
                                 Str("MODIS Terra/Aqua")>>)])

\* weatherThresholds of ComprehensiveApp.
weatherThresholds ==
  [veryHot |-> 35, veryCold |-> -10, veryWindy |-> 50, veryWet |-> 20, veryUncomfortable |-> 40]

BestCount == 5

\* (a, b) => b.weather_score - a.weather_score
ByWeatherScoreDesc(a, b) == Get(a, "weather_score").v > Get(b, "weather_score").v

\* [...daily].sort((a,b) => b.weather_score - a.weather_score).slice(0, 5)
TopByScore(list) == Take(SortSeq(list, ByWeatherScoreDesc), BestCount)

\* The entry of bestDays built from a daily record.
BestDay(d) ==
  Obj([date |-> Get(d, "date"),
       temperature |-> Get(Get(d, "conditions"), "temperature"),
       precipitation |-> Get(Get(d, "conditions"), "precipitation"),
       windSpeed |-> Get(Get(d, "conditions"), "wind_speed"),
       humidity |-> Get(Get(d, "conditions"), "humidity"),
       suitabilityScore |-> Get(d, "weather_score"),
       overallRisk |-> Get(d, "overall_risk"),
       confidence |-> Get(d, "confidence_score")])

\* daily.map(d => d.conditions?.[key]).filter(v => typeof v === 'number'),
\* as the set of its values (response bodies are JSON: no NaN).
NumericValues(daily, key) ==
  { Get(Get(daily[i], "conditions"), key).v :
      i \in { k \in 1..Len(daily) : Get(Get(daily[k], "conditions"), key).t = "number" } }

\* Math.max(...values) and Math.min(...values) of a non-empty set.
MaxOf(values) == CHOOSE x \in values : \A y \in values : y =< x
MinOf(values) == CHOOSE x \in values : \A y \in values : y >= x

\* maxWind > limit, the wind left in m/s.
WindExceeds(wind, limit) == wind > limit

\* maxWind * 3.6 > limit, in tenths.
WindTimes36Exceeds(wind, limit) == wind * 36 > limit * 10

\* computeThresholdAnalysis
computeThresholdAnalysis(daily) ==
  LET temps == NumericValues(daily, "temperature")
      winds == NumericValues(daily, "wind_speed")
      precs == NumericValues(daily, "precipitation")
      humid == NumericValues(daily, "humidity")
  IN Obj([veryHot |-> Bool(temps # {} /\ MaxOf(temps) > weatherThresholds.veryHot),
          veryCold |-> Bool(temps # {} /\ MinOf(temps) < weatherThresholds.veryCold),
          veryWindy |-> Bool(winds # {} /\ WindTimes36Exceeds(MaxOf(winds),
                                                            weatherThresholds.veryWindy)),
          veryWet |-> Bool(precs # {} /\ MaxOf(precs) > weatherThresholds.veryWet),
          veryUncomfortable |->
            Bool(humid # {} /\ MaxOf(humid) > weatherThresholds.veryUncomfortable)])

\* daily.reduce((s, d) => s + (d.overall_risk || 0), 0)
RECURSIVE RiskSum(_, _)
RiskSum(daily, n) ==
  IF n = 0 THEN 0 ELSE RiskSum(daily, n - 1) + Or(Get(daily[n], "overall_risk"), Num(0)).v

\* d.weather_score >= limit (false for a record without a numeric score)
ScoreAtLeast(d, limit) ==
  Get(d, "weather_score").t = "number" /\ Get(d, "weather_score").v >= limit

\* The count of records that score above 60.
CountAbove60(daily) ==
  Cardinality({ i \in 1..Len(daily) :
                  Get(daily[i], "weather_score").t = "number"
                  /\ Get(daily[i], "weather_score").v > 60 })

\* daily.filter(d => d.weather_score >= 60).length
CountSuitable(daily) == Cardinality({ i \in 1..Len(daily) : ScoreAtLeast(daily[i], 60) })

\* computeWeatherWindowMeta; avgRisk > c is compared as sum > c * totalDays.
computeWeatherWindowMeta(daily) ==
  IF Len(daily) = 0
  THEN Obj([totalDays |-> Num(0), suitableDays |-> Num(0), riskLevel |-> Str("unknown")])
  ELSE LET totalDays == Len(daily)
           riskSum == RiskSum(daily, totalDays)
       IN Obj([totalDays |-> Num(totalDays),
               suitableDays |-> Num(CountSuitable(daily)),
               riskLevel |-> Str(IF riskSum > 140 * totalDays THEN "high"
                                 ELSE IF riskSum > 80 * totalDays THEN "medium" ELSE "low")])

\* suggestAlternativeDates
suggestAlternativeDates(daily, bestDays) ==
  LET usedDates == { Get(bestDays[i], "date") : i \in 1..Len(bestDays) }
      Eligible(d) == Get(d, "date") \notin usedDates /\ ScoreAtLeast(d, 50)
      Alternative(d) ==
        Obj([date |-> Get(d, "date"), score |-> Get(d, "weather_score"),
             temperature |-> Get(Get(d, "conditions"), "temperature"),
             precipitation |-> Get(Get(d, "conditions"), "precipitation"),
             windSpeed |-> Get(Get(d, "conditions"), "wind_speed")])
      chosen == Take(SortSeq(SelectSeq(daily, Eligible), ByWeatherScoreDesc), BestCount)
  IN [i \in 1..Len(chosen) |-> Alternative(chosen[i])]

\* normalizeNASAResult (averageConditions, the means of the readings, is not
\* carried: it is not a whole number).
normalizeNASAResult(apiData, f) ==
  IF ~Truthy(apiData) \/ ~Truthy(Get(apiData, "daily_analysis"))
  THEN Obj(Spread(EMPTY_RESULTS_COMPREHENSIVE,
                  [error |-> Str("No NASA data available"), location |-> Str(f.location)]))
  ELSE LET daily == Get(apiData, "daily_analysis").v
           recommended == Get(apiData, "top_recommendations")
           top == IF recommended.t = "array" /\ Len(recommended.v) # 0
                  THEN recommended.v ELSE TopByScore(daily)
           bestDays == [i \in 1..Len(top) |-> BestDay(top[i])]
           firstConfidence == IF Len(bestDays) = 0 THEN Undefined
                              ELSE Get(bestDays[1], "confidence")
       IN Obj([success |-> Get(apiData, "success"),
               location |-> Str(f.location),
               dateRange |-> Obj([from |-> Num(f.dateFrom), to |-> Num(f.dateTo)]),
               bestDays |-> Arr(bestDays),
               dailyAnalysis |-> Arr(daily),
               weatherWindow |-> computeWeatherWindowMeta(daily),
               thresholdAnalysis |-> computeThresholdAnalysis(daily),
               alternativeDates |-> Arr(suggestAlternativeDates(daily, bestDays)),
               nasaDataSources |->
                 IF Truthy(Get(apiData, "data_source_info"))
                 THEN Arr(<<Or(Get(Get(apiData, "data_source_info"), "primary"),
                               Str("NASA POWER API"))>>)
                 ELSE Arr(<<Str("NASA POWER API")>>),
               analysisTime |-> Get(apiData, "analysis_time_seconds"),
               methodology |-> Get(apiData, "methodology"),
               confidence |-> Num(Min2(100, Or(firstConfidence, Num(80)).v)),
               raw |-> apiData])

\* Response bodies of the analysis endpoints.
\* Requests counted at most.
MaxInFlight == 2

AnalysisBodies ==
  {Null, Obj(NoKeys),
   Obj([best_days |-> Arr(<<Str("day-b")>>), weather_window_summary |-> SnakeWindow]),
   Obj([success |-> Bool(TRUE),
        daily_analysis |-> Arr(<<Obj([date |-> Num(1), weather_score |-> Num(80)])>>)])}

\* How a backend request can fail: fetch rejects, the status is not OK, the
\* body is not JSON.
Failures == {"rejected", "notOk", "unparseable"}

VARIABLES
  page,                \* which app page is running
  form,                \* useState: location, dateFrom, dateTo
  appLoading,          \* useState loading of the page
  pending,             \* a backend request of handleAnalyze is in flight
  showVisualizations,  \* useState (ComprehensiveApp)
  alertShown,          \* the alert() raised by the latest step, "" for none
  lastCall             \* observation of the latest step: "invalid" / "started"
                       \* when it was a handleAnalyze call that failed / passed
                       \* validation, "failed" / "answered" when it handled a
                       \* failed / an answered request, else "none"

analyzeVars == <<page, form, appLoading, pending, showVisualizations, alertShown, lastCall>>

AnalyzeInit ==
  /\ page \in Pages
  /\ form = [location |-> "", dateFrom |-> 0, dateTo |-> 0]
  /\ appLoading = FALSE
  /\ pending = 0
  /\ showVisualizations = FALSE
  /\ alertShown = ""
  /\ lastCall = "none"
  /\ raw = Undefined
  /\ results = IF page = "App" THEN Null ELSE Obj(EMPTY_RESULTS_COMPREHENSIVE)

\* The user edits the form (between analyses).
SetForm(f) ==
  /\ ~appLoading
  /\ f # form
  /\ form' = f
  /\ alertShown' = ""
  /\ lastCall' = "none"
  /\ UNCHANGED <<page, appLoading, pending, showVisualizations, raw, results>>

\* An Analyze button that stays enabled while loading.
NeverDisabled == FALSE

\* disabled={... || loading} of the Analyze button.
AnalyzeDisabled == appLoading

\* handleAnalyze up to its first await.
handleAnalyze ==
  /\ ~AnalyzeDisabled
  /\ pending < MaxInFlight
  /\ IF FieldMissing(form)
     THEN /\ alertShown' = IF page = "App" THEN "Please select location and date range" ELSE ""
          /\ lastCall' = "invalid"
          /\ UNCHANGED <<appLoading, pending, showVisualizations, raw, results>>
     ELSE IF EndNotAfterStart(form)
     THEN /\ alertShown' = IF page = "App" THEN "End date must be after start date" ELSE ""
          /\ results' = IF page = "App" THEN results
                        ELSE Obj(Spread(EMPTY_RESULTS_COMPREHENSIVE,
                                        [error |-> Str("End date must be after start date.")]))
          /\ lastCall' = "invalid"
          /\ UNCHANGED <<appLoading, pending, showVisualizations, raw>>
     ELSE /\ appLoading' = TRUE
          /\ results' = IF page = "App" THEN Null ELSE results
          /\ showVisualizations' = FALSE
          /\ pending' = pending + 1
          /\ alertShown' = ""
          /\ lastCall' = "started"
          /\ UNCHANGED raw
  /\ UNCHANGED <<page, form>>

\* The request fails: App falls back to the mock analysis, ComprehensiveApp
\* stores an error result; finally loading is cleared.
BackendFails(how, suitableDays, riskLevel, confidence) ==
  /\ pending > 0
  /\ pending' = pending - 1
  /\ results' = IF page = "App"
                THEN normalizeResults(
                       generateRealisticKazakhstanWeather(form, suitableDays, riskLevel, confidence))
                ELSE Obj(Spread(EMPTY_RESULTS_COMPREHENSIVE,
                                [error |-> Str("NASA data fetch failed. Please retry."),
                                 location |-> Str(form.location)]))
  /\ appLoading' = FALSE
  /\ alertShown' = ""
  /\ lastCall' = "failed"
  /\ UNCHANGED <<page, form, showVisualizations, raw>>

\* The request is answered with a JSON body, which is normalized.
BackendAnswers(body) ==
  /\ pending > 0
  /\ pending' = pending - 1
  /\ raw' = body
  /\ results' = IF page = "App"
                THEN IF normalizeThrows(body)
                     THEN Obj(Spread(EMPTY_RESULTS, [error |-> Str("Analysis failed unexpectedly.")]))
                     ELSE normalizeResults(body)
                ELSE normalizeNASAResult(body, form)
  /\ showVisualizations' = (page = "ComprehensiveApp")
  /\ appLoading' = FALSE
  /\ alertShown' = ""
  /\ lastCall' = "answered"
  /\ UNCHANGED <<page, form>>

AnalyzeNext ==
  \/ \E f \in Forms : SetForm(f)
  \/ handleAnalyze
  \/ \E how \in Failures, suitableDays \in {3, 7}, riskLevel \in {"high", "medium", "low"},
        confidence \in {75, 94} : BackendFails(how, suitableDays, riskLevel, confidence)
  \/ \E body \in AnalysisBodies : BackendAnswers(body)

\* The page before it is used.
AnalyzeIdle ==
  /\ page = "App"
  /\ form = [location |-> "", dateFrom |-> 0, dateTo |-> 0]
  /\ appLoading = FALSE
  /\ pending = 0
  /\ showVisualizations = FALSE
  /\ alertShown = ""
  /\ lastCall = "none"

\* ======================================================================
\* ErrorBoundary: the class component around the app.
\* What a render of the children can throw.
RenderErrors ==
  [name : {"TypeError", "RangeError", "ReferenceError", "Error"},
   message : {"Cannot read properties of undefined", "Invalid time value",
              "results is not defined", "Minified React error"}]

\* this.state.error of a boundary that caught nothing.
NoError == [name |-> "null", message |-> ""]

\* The reset that clears the flag and keeps the error.
ResetFlagOnly(state) == [hasError |-> FALSE, error |-> state.error]

\* this.setState({ hasError: false, error: null })
ResetState(state) == [hasError |-> FALSE, error |-> NoError]

\* static getDerivedStateFromError(error)
getDerivedStateFromError(err) == [hasError |-> TRUE, error |-> err]

VARIABLES
  boundary,         \* this.state of the ErrorBoundary
  onResetProvided,  \* props.onReset is given
  childRendered,    \* the children are rendered and on screen
  logged,           \* the error of the latest componentDidCatch log
  lastBoundaryStep  \* observation of the latest step: "caught", "retry",
                    \* "retryWithOnReset", "reload", "rendered", "updated"
                    \* or "none"

boundaryVars == <<boundary, onResetProvided, childRendered, logged, lastBoundaryStep>>

BoundaryInit ==
  /\ boundary = [hasError |-> FALSE, error |-> NoError]
  /\ onResetProvided \in BOOLEAN
  /\ childRendered = FALSE
  /\ logged = NoError
  /\ lastBoundaryStep = "none"

\* render() returns this.props.children and they render without error.
RenderChildren ==
  /\ ~boundary.hasError
  /\ ~childRendered
  /\ childRendered' = TRUE
  /\ lastBoundaryStep' = "rendered"
  /\ UNCHANGED <<boundary, onResetProvided, logged>>

\* A render of the children throws: getDerivedStateFromError gives the new
\* state, the recovery screen is rendered, componentDidCatch logs.
ChildThrows(err) ==
  /\ ~boundary.hasError
  /\ ~childRendered
  /\ boundary' = getDerivedStateFromError(err)
  /\ logged' = err
  /\ lastBoundaryStep' = "caught"
  /\ UNCHANGED <<onResetProvided, childRendered>>

\* State or props of the app change: the children are rendered anew.
ChildUpdates ==
  /\ childRendered
  /\ childRendered' = FALSE
  /\ lastBoundaryStep' = "updated"
  /\ UNCHANGED <<boundary, onResetProvided, logged>>

\* handleReset: the Retry button of the recovery screen.
handleReset ==
  /\ boundary.hasError
  /\ boundary' = ResetState(boundary)
  /\ lastBoundaryStep' = IF onResetProvided THEN "retryWithOnReset" ELSE "retry"
  /\ UNCHANGED <<onResetProvided, childRendered, logged>>

\* window.location.reload(): the Full Reload button; the page starts over.
FullReload ==
  /\ boundary.hasError
  /\ boundary' = [hasError |-> FALSE, error |-> NoError]
  /\ childRendered' = FALSE
  /\ logged' = NoError
  /\ lastBoundaryStep' = "reload"
  /\ UNCHANGED onResetProvided

BoundaryNext ==
  \/ RenderChildren
  \/ \E err \in RenderErrors : ChildThrows(err)
  \/ ChildUpdates
  \/ handleReset
  \/ FullReload

\* The boundary as constructed.
BoundaryIdle ==
  /\ boundary = [hasError |-> FALSE, error |-> NoError]
  /\ onResetProvided = FALSE
  /\ childRendered = FALSE
  /\ logged = NoError
  /\ lastBoundaryStep = "none"

\* ------------------------------------------------- normalizeNASAResult
\* The responses of POST /api/analyze-weather-window that carry daily
\* records: a record has a date, a weather_score, and optionally an
\* overall_risk, a confidence_score and conditions whose readings are
\* numbers, or the { average, range } objects of demoWeatherAnalysis, or
\* are missing.
Reading(x) == IF x = NoValue THEN Absent ELSE Num(x)

Averaged(x) == Obj([average |-> Num(x)])

NasaConditions(t, p, w, h) ==
  Obj(Field("temperature", t) @@ Field("precipitation", p)
      @@ Field("wind_speed", w) @@ Field("humidity", h))

NasaDay(date, score, risk, confidence, conditions) ==
  Obj([date |-> Num(date), weather_score |-> Num(score)]
      @@ Field("overall_risk", risk) @@ Field("confidence_score", confidence)
      @@ Field("conditions", conditions))

\* A mild fortnight, readings rising day by day.
MildSeries ==
  <<NasaDay(1, 55, Num(60), Num(90), NasaConditions(Num(20), Num(0), Num(5), Num(40))),
    NasaDay(2, 92, Num(20), Num(95), NasaConditions(Num(25), Num(2), Num(3), Num(41))),
    NasaDay(3, 60, Absent, Num(70), NasaConditions(Num(35), Num(20), Num(7), Num(60))),
    NasaDay(4, 78, Num(100), Absent, NasaConditions(Num(30), Absent, Num(6), Num(80))),
    NasaDay(5, 59, Num(81), Num(85), NasaConditions(Num(28), Num(21), Num(10), Num(81))),
    NasaDay(6, 85, Num(40), Num(88), NasaConditions(Num(36), Num(5), Num(13), Num(50))),
    NasaDay(7, 50, Num(30), Num(60), NasaConditions(Num(22), Num(1), Num(14), Num(30)))>>

\* A harsh one: high risks, a cold snap, readings partly missing.
HarshSeries ==
  <<NasaDay(11, 30, Num(150), Num(50), NasaConditions(Num(-10), Num(0), Num(2), Absent)),
    NasaDay(12, 20, Num(141), Num(40), NasaConditions(Num(-11), Str("n/a"), Num(4), Num(20))),
    NasaDay(13, 45, Num(130), Num(45), Absent),
    NasaDay(14, 10, Num(200), Num(30), NasaConditions(Null, Num(30), Absent, Num(35))),
    NasaDay(15, 49, Num(79), Num(55), NasaConditions(Num(-20), Num(0), Num(15), Num(39))),
    NasaDay(16, 0, Absent, Num(20), NasaConditions(Num(-5), Num(0), Num(1), Num(10))),
    NasaDay(17, 100, Num(0), Num(100), NasaConditions(Num(0), Num(0), Num(0), Num(0)))>>

\* The shape of demoWeatherAnalysis: every reading an { average } object.
DemoSeries ==
  <<NasaDay(21, 92, Num(10), Num(95),
            NasaConditions(Averaged(26), Averaged(2), Averaged(3), Averaged(45))),
    NasaDay(22, 89, Num(15), Num(93),
            NasaConditions(Averaged(40), Averaged(30), Averaged(20), Averaged(90))),
    NasaDay(23, 87, Num(80), Num(91),
            NasaConditions(Averaged(24), Averaged(1), Averaged(4), Averaged(50))),
    NasaDay(24, 60, Num(160), Num(80), NasaConditions(Num(24), Num(1), Num(4), Num(50)))>>

NasaSeries == {MildSeries, HarshSeries, DemoSeries}

MaxDaily == 7

DailyLists == { Take(series, n) : series \in NasaSeries, n \in 0..MaxDaily }

\* What the backend may list as top_recommendations for a daily list:
\* nothing, an empty list, its ranked best three or six, or the days as
\* analysed.
Recommendations(daily) ==
  {Absent, Arr(<<>>), Arr(Take(SortSeq(daily, ByWeatherScoreDesc), 3)),
   Arr(Take(SortSeq(daily, ByWeatherScoreDesc), 6)), Arr(daily)}

NasaResponse(daily, top) ==
  Obj([success |-> Bool(TRUE), daily_analysis |-> Arr(daily)]
      @@ Field("top_recommendations", top))

NasaResponses ==
  UNION { { NasaResponse(daily, top) : top \in Recommendations(daily) } :
            daily \in DailyLists }

NasaContext == [location |-> "Almaty", dateFrom |-> 1, dateTo |-> 2]

VARIABLES nasaResponse, nasaResult

nasaVars == <<nasaResponse, nasaResult>>

NasaInit ==
  /\ nasaResponse \in NasaResponses
  /\ nasaResult = Null

\* setResults(normalizeNASAResult(apiData, ctx))
NormalizeNasa ==
  /\ nasaResult = Null
  /\ nasaResult' = normalizeNASAResult(nasaResponse, NasaContext)
  /\ UNCHANGED nasaResponse

\* The next analysis: another response arrives.
NextNasaResponse(d) ==
  /\ nasaResult # Null
  /\ nasaResponse' = d
  /\ nasaResult' = Null

NasaNext == NormalizeNasa \/ \E d \in NasaResponses : NextNasaResponse(d)

NasaIdle == nasaResponse = Undefined /\ nasaResult = Null

\* ------------------------------------------- the loop of processChunk
\* One scan followed candidate by candidate: the pool incrementalScore was
\* called with, the loop index, and the scored array.
ScanPools ==
  { [candidates |-> buildCandidatePool(mappedDailyOf(d), a, g), activity |-> a] :
      d \in WeatherDataSets, a \in InitialActivities \cup ButtonActivities, g \in SearchRanges }

VARIABLES scanned, index, scored

topVars == <<scanned, index, scored>>

TopKInit ==
  /\ scanned \in ScanPools
  /\ index = 0
  /\ scored = <<>>

\* One iteration of the for-loop: score candidates[index], push, evict.
ScoreCandidate ==
  /\ index < Len(scanned.candidates)
  /\ scored' = PushBounded(scored, ScoredEntry(scanned.candidates[index + 1],
                                               RequirementsFor(scanned.activity)))
  /\ index' = index + 1
  /\ UNCHANGED scanned

\* The next call of incrementalScore, once the loop is through.
NextScan(pool) ==
  /\ index = Len(scanned.candidates)
  /\ scanned' = pool
  /\ index' = 0
  /\ scored' = <<>>

TopKNext == ScoreCandidate \/ \E pool \in ScanPools : NextScan(pool)

TopKIdle == scanned = [candidates |-> <<>>, activity |-> "general"] /\ index = 0 /\ scored = <<>>

\* --------------------------------------------- the batches of a scan
\* One scan followed batch by batch for its batch size: the length of the
\* pool, the loop index, dynamicChunk, and what the latest callback did.
\* A pool has at most PoolCap candidates; a batch takes any time around
\* the target window.
PoolSizes == {0, 1, 9, 45, 100, PoolCap - 1, PoolCap}

Durations == {0, 5, 6, 7, 18, 19, 40}

NoBatch == [size |-> 0, scoredNow |-> 0, duration |-> 0]

VARIABLES batchTotal, batchIndex, dynamicChunk, lastBatch

chunkVars == <<batchTotal, batchIndex, dynamicChunk, lastBatch>>

ChunkInit ==
  /\ batchTotal \in PoolSizes
  /\ batchIndex = 0
  /\ dynamicChunk = InitialChunk
  /\ lastBatch = NoBatch

\* A frame callback: the for-loop up to end, then the adaptation.
BatchCallback(chunkDuration) ==
  LET end == Min2(batchIndex + dynamicChunk, batchTotal)
  IN /\ lastBatch = NoBatch \/ batchIndex < batchTotal
     /\ batchIndex' = end
     /\ dynamicChunk' = AdaptChunk(dynamicChunk, chunkDuration)
     /\ lastBatch' = [size |-> dynamicChunk, scoredNow |-> end - batchIndex,
                      duration |-> chunkDuration]
     /\ UNCHANGED batchTotal

\* The next call of incrementalScore, once the scan is through.
NextBatchScan(total) ==
  /\ lastBatch # NoBatch /\ batchIndex = batchTotal
  /\ batchTotal' = total
  /\ batchIndex' = 0
  /\ dynamicChunk' = InitialChunk
  /\ lastBatch' = NoBatch

ChunkNext ==
  \/ \E chunkDuration \in Durations : BatchCallback(chunkDuration)
  \/ \E total \in PoolSizes : NextBatchScan(total)

ChunkIdle ==
  batchTotal = 0 /\ batchIndex = 0 /\ dynamicChunk = InitialChunk /\ lastBatch = NoBatch

\* ---------------------------------------------------- buildCandidatePool
\* Daily data the pool is built from: days in the past, ahead within the
\* horizon and beyond it, with and without a temperature.
LongDays == 170

WithoutTemperature(d) == [k \in DOMAIN d \ {"temperature"} |-> d[k]]

\* Every third record of a series without its temperature.
Patchy(series) ==
  [i \in 1..Len(series) |-> IF i % 3 = 0 THEN WithoutTemperature(series[i]) ELSE series[i]]

\* A heat wave: every record above every activity's band.
HeatWave(firstDay, n) == [i \in 1..n |-> [DailyRecord(firstDay + i - 1, i) EXCEPT !.temperature = 60]]

PoolSeries ==
  {<<>>, Forecast, History, Patchy(Forecast), Patchy(History),
   DailySeries(Today - LongDays, LongDays),
   DailySeries(Today - 10, MaxDays),
   DailySeries(Today, 8),
   DailySeries(Today + 31, 20),
   HeatWave(Today + 1, 10),
   HeatWave(Today - 5, 4) \o DailySeries(Today + 40, 5),
   DailySeries(Today - LongDays, LongDays) \o HeatWave(Today + 1, 3)}

\* The range buttons.
AllSearchRanges == {7, 14, 21, 30}

PoolInputs ==
  [daily : PoolSeries, activity : Activities \cup {"wedding"}, range : AllSearchRanges]

NoPool == <<"none">>

VARIABLES poolInput, pool

poolVars == <<poolInput, pool>>

PoolInit ==
  /\ poolInput \in PoolInputs
  /\ pool = NoPool

\* const candidates = buildCandidatePool()
BuildPool ==
  /\ pool = NoPool
  /\ pool' = buildCandidatePool([i \in 1..Len(poolInput.daily) |-> MapDaily(poolInput.daily[i])],
                                poolInput.activity, poolInput.range)
  /\ UNCHANGED poolInput

\* The effect runs again with other data, activity or range.
NextPoolInput(in) ==
  /\ pool # NoPool
  /\ poolInput' = in
  /\ pool' = NoPool

PoolNext == BuildPool \/ \E in \in PoolInputs : NextPoolInput(in)

PoolIdle == poolInput = [daily |-> <<>>, activity |-> "general", range |-> 14] /\ pool = NoPool

\* ----------------------------------------------------------- specifications
vars == <<scanVars, normVars, scoreVars, recentVars, analyzeVars, boundaryVars, nasaVars, topVars, chunkVars, poolVars>>

\* The scanner before it is mounted, with no data.
ScanIdle ==
  /\ mounted = FALSE
  /\ weatherData = NoData
  /\ selectedActivity = "general"
  /\ searchRange = 14
  /\ alternativeDates = <<>>
  /\ loading = FALSE
  /\ timedOut = FALSE
  /\ progress = [processed |-> 0, total |-> 0]
  /\ computeAbortRef = FALSE
  /\ runs = [r \in RunIds |-> NoRun]
  /\ cur = 0
  /\ device = "steady"
  /\ lastFlush = "none"

\* The page before any analysis.
NormIdle == raw = Undefined /\ results = Null

Init == ScanInit /\ NormIdle /\ ScoreIdle /\ RecentIdle /\ AnalyzeIdle /\ BoundaryIdle /\ NasaIdle /\ TopKIdle /\ ChunkIdle /\ PoolIdle

Next == ScanNext /\ UNCHANGED <<normVars, scoreVars, recentVars, analyzeVars, boundaryVars, nasaVars, topVars, chunkVars, poolVars>>

Spec == Init /\ [][Next]_vars

NormSpecInit == NormInit /\ ScanIdle /\ ScoreIdle /\ RecentIdle /\ AnalyzeIdle /\ BoundaryIdle /\ NasaIdle /\ TopKIdle /\ ChunkIdle /\ PoolIdle

NormSpecNext == NormNext /\ UNCHANGED <<scanVars, scoreVars, recentVars, analyzeVars, boundaryVars, nasaVars, topVars, chunkVars, poolVars>>

NormSpec == NormSpecInit /\ [][NormSpecNext]_vars

ScoreSpecInit == ScoreInit /\ ScanIdle /\ NormIdle /\ RecentIdle /\ AnalyzeIdle /\ BoundaryIdle /\ NasaIdle /\ TopKIdle /\ ChunkIdle /\ PoolIdle

ScoreSpecNext == ScoreNext /\ UNCHANGED <<scanVars, normVars, recentVars, analyzeVars, boundaryVars, nasaVars, topVars, chunkVars, poolVars>>

ScoreSpec == ScoreSpecInit /\ [][ScoreSpecNext]_vars

RecentSpecInit == RecentInit /\ ScanIdle /\ NormIdle /\ ScoreIdle /\ AnalyzeIdle /\ BoundaryIdle /\ NasaIdle /\ TopKIdle /\ ChunkIdle /\ PoolIdle

RecentSpecNext == RecentNext /\ UNCHANGED <<scanVars, normVars, scoreVars, analyzeVars, boundaryVars, nasaVars, topVars, chunkVars, poolVars>>

RecentSpec == RecentSpecInit /\ [][RecentSpecNext]_vars

AnalyzeSpecInit == AnalyzeInit /\ ScanIdle /\ ScoreIdle /\ RecentIdle /\ BoundaryIdle /\ NasaIdle /\ TopKIdle /\ ChunkIdle /\ PoolIdle

AnalyzeSpecNext == AnalyzeNext /\ UNCHANGED <<scanVars, scoreVars, recentVars, boundaryVars, nasaVars, topVars, chunkVars, poolVars>>

AnalyzeSpec == AnalyzeSpecInit /\ [][AnalyzeSpecNext]_vars

BoundarySpecInit == BoundaryInit /\ ScanIdle /\ NormIdle /\ ScoreIdle /\ RecentIdle /\ AnalyzeIdle /\ NasaIdle /\ TopKIdle /\ ChunkIdle /\ PoolIdle

BoundarySpecNext == BoundaryNext /\ UNCHANGED <<scanVars, normVars, scoreVars, recentVars, analyzeVars, nasaVars, topVars, chunkVars, poolVars>>

BoundarySpec == BoundarySpecInit /\ [][BoundarySpecNext]_vars

NasaSpecInit == NasaInit /\ ScanIdle /\ NormIdle /\ ScoreIdle /\ RecentIdle /\ AnalyzeIdle /\ BoundaryIdle /\ TopKIdle /\ ChunkIdle /\ PoolIdle

NasaSpecNext == NasaNext /\ UNCHANGED <<scanVars, normVars, scoreVars, recentVars, analyzeVars, boundaryVars, topVars, chunkVars, poolVars>>

NasaSpec == NasaSpecInit /\ [][NasaSpecNext]_vars

TopKSpecInit == TopKInit /\ ScanIdle /\ NormIdle /\ ScoreIdle /\ RecentIdle /\ AnalyzeIdle /\ BoundaryIdle /\ NasaIdle /\ ChunkIdle /\ PoolIdle

TopKSpecNext == TopKNext /\ UNCHANGED <<scanVars, normVars, scoreVars, recentVars, analyzeVars, boundaryVars, nasaVars, chunkVars, poolVars>>

TopKSpec == TopKSpecInit /\ [][TopKSpecNext]_vars

ChunkSpecInit == ChunkInit /\ ScanIdle /\ NormIdle /\ ScoreIdle /\ RecentIdle /\ AnalyzeIdle /\ BoundaryIdle /\ NasaIdle /\ TopKIdle /\ PoolIdle

ChunkSpecNext == ChunkNext /\ UNCHANGED <<scanVars, normVars, scoreVars, recentVars, analyzeVars, boundaryVars, nasaVars, topVars, poolVars>>

ChunkSpec == ChunkSpecInit /\ [][ChunkSpecNext]_vars

PoolSpecInit == PoolInit /\ ScanIdle /\ NormIdle /\ ScoreIdle /\ RecentIdle /\ AnalyzeIdle /\ BoundaryIdle /\ NasaIdle /\ TopKIdle /\ ChunkIdle

PoolSpecNext == PoolNext /\ UNCHANGED <<scanVars, normVars, scoreVars, recentVars, analyzeVars, boundaryVars, nasaVars, topVars, chunkVars>>

PoolSpec == PoolSpecInit /\ [][PoolSpecNext]_vars

\* ------------------------------------------------------------------ render
\* What the component renders: the loading view while loading is set, else
\* the results view with the first DisplayCount alternatives.
Render ==
  IF loading
  THEN [view |-> "loading", dates |-> <<>>]
  ELSE [view |-> "results",
        dates |-> SubSeq(alternativeDates, 1, Min2(DisplayCount, Len(alternativeDates)))]

\* ------------------------------------------------------------------ claims
Unmounted == ~mounted /\ cur > 0

\* Run r neither scores nor publishes in this step; its pending callback may
\* only be consumed at the abort check.
RunSilent(r) ==
  /\ runs'[r].index = runs[r].index
  /\ runs'[r].scored = runs[r].scored
  /\ runs'[r].state # runs[r].state =>
       /\ runs'[r].state = "aborted"
       /\ UNCHANGED <<alternativeDates, progress, loading, timedOut>>

MidScan(r) == runs[r].index > 0 /\ runs[r].index < Len(runs[r].candidates)

\* C1: once the effect has been re-triggered, a superseded run scores no
\* further candidate and makes no further state update.
C1_SupersededRunStops ==
  [][\A r \in RunIds : r < cur => RunSilent(r)]_vars

\* C2: after the component is unmounted no frame callback and no timer
\* updates state, and no further frame is scheduled.
C2_NoUpdateAfterUnmount ==
  [][Unmounted =>
       /\ UNCHANGED <<alternativeDates, progress, loading, timedOut>>
       /\ \A r \in RunIds : RunSilent(r) /\ (runs'[r].timer => runs[r].timer)]_vars

\* C2 witness: unmounted in the middle of a scan, and the pending frame
\* callback of the latest run has since fired and returned at the abort check.
C2_Witness ==
  Unmounted /\ ~timedOut /\ runs[cur].state = "aborted" /\ MidScan(cur)

\* C3: when nothing of the latest run is pending any more (no frame
\* callback, no timer), the run is published and loading is false.
C3_RunFinishes ==
  (mounted /\ cur > 0 /\ runs[cur].state # "scoring" /\ ~runs[cur].timer)
    => (runs[cur].state = "published" /\ ~loading)

\* C4: after the timeout has fired with candidates left, and until the next
\* re-trigger, no run scores a candidate or schedules a frame and
\* alternativeDates keeps its value.
C4_TimeoutStopsScan ==
  [][(timedOut /\ runs[cur].index < Len(runs[cur].candidates) /\ cur' = cur) =>
       /\ alternativeDates' = alternativeDates
       /\ \A r \in RunIds : RunSilent(r)]_vars

\* C4 witness: the timeout fired in the middle of a scan, the pending frame
\* callback returned at the abort check and a partial list is on display.
C4_Witness ==
  /\ mounted /\ timedOut /\ runs[cur].state = "aborted" /\ MidScan(cur)
  /\ alternativeDates # <<>>

\* C5: every published list has at most topK entries.
C5_AtMostTopK == Len(alternativeDates) <= topK

\* C6: every published list is ordered by non-increasing safetyScore.
C6_SortedDescending ==
  \A i \in 1..(Len(alternativeDates) - 1) :
    alternativeDates[i].safetyScore >= alternativeDates[i + 1].safetyScore

\* C6 witness: a final list with merged external alternatives and with
\* different scores has been published.
C6_Witness ==
  /\ cur > 0 /\ runs[cur].state = "published"
  /\ runs[cur].data.alternativeDates # <<>>
  /\ Len(alternativeDates) > Len(runs[cur].scored)
  /\ alternativeDates[1].safetyScore > alternativeDates[Len(alternativeDates)].safetyScore

\* C7: the published list holds at most one entry per calendar date.
C7_OneEntryPerDate ==
  \A i, j \in 1..Len(alternativeDates) :
    i # j => IsoDay(alternativeDates[i].date) # IsoDay(alternativeDates[j].date)

\* C8: a batch after the first that leaves candidates unscored publishes
\* only when more than FlushMs have passed since the previous publication.
C8_FlushSpacing == lastFlush # "early"

\* C9: while the latest scan is in progress and has published a partial
\* list, the component displays that list.
C9_PartialVisible ==
  (mounted /\ cur > 0 /\ runs[cur].state = "scoring" /\ runs[cur].index > 0)
    => (Render.view = "results" /\ Render.dates = SubSeq(alternativeDates, 1, Min2(DisplayCount, Len(alternativeDates))))

\* C10: whatever the input, the normalized result has an array bestDays,
\* numeric weatherWindow.totalDays and weatherWindow.suitableDays and a
\* string weatherWindow.riskLevel.
C10_NormalizedShape ==
  results # Null =>
    /\ Get(results, "bestDays").t = "array"
    /\ TypeOf(Get(Get(results, "weatherWindow"), "totalDays")) = "number"
    /\ TypeOf(Get(Get(results, "weatherWindow"), "suitableDays")) = "number"
    /\ TypeOf(Get(Get(results, "weatherWindow"), "riskLevel")) = "string"

\* The weatherWindow object of the response that normalizeResults reads.
RawWindow ==
  IF "weatherWindow" \in DOMAIN raw.v THEN raw.v["weatherWindow"]
  ELSE Get(raw, "weather_window_summary")

BothKeys(x, camel, snake) == x.t = "object" /\ {camel, snake} \subseteq DOMAIN x.v

\* C11: when the response carries both the camelCase and the snake_case
\* key of a field, the result holds the value of the camelCase key, whatever
\* that value is (0 and the empty string included).
C11_CamelCasePreferred ==
  (results \notin {Null, Thrown} /\ raw.t = "object") =>
    /\ (BothKeys(raw, "bestDays", "best_days") /\ raw.v["bestDays"].t = "array") =>
          Get(results, "bestDays") = raw.v["bestDays"]
    /\ \A pair \in {<<"totalDays", "total_days">>, <<"suitableDays", "suitable_days">>,
                     <<"riskLevel", "risk_level">>} :
          BothKeys(RawWindow, pair[1], pair[2]) =>
            Get(Get(results, "weatherWindow"), pair[1]) = RawWindow.v[pair[1]]

\* C12: normalizeResults never throws; a non-object input (null, undefined,
\* number, string, boolean) gives the default shape with the error field
\* set, an object input gives a result.
C12_NeverThrows ==
  results # Null =>
    /\ results # Thrown
    /\ raw.t \notin {"object", "array"} => results = InvalidResult
    /\ results.t = "object"

C12_Witness ==
  /\ raw = Null
  /\ results = InvalidResult

\* C13: whatever the readings and the activity, calculateSafetyScore and
\* App's calculateSuitabilityScore return a score in [0,100] and
\* ComprehensiveApp's calculateSuitabilityScore a score in [50,100] (half
\* points: [0,200] and [100,200]).
C13_ScoreInRange ==
  outcome.scored =>
    /\ outcome.pool.result.score \in 0..200
    /\ outcome.external.result.score \in 0..200
    /\ outcome.app \in 0..200
    /\ outcome.comprehensive \in 100..200

C13_Witness ==
  /\ outcome.scored
  /\ sample.reading.temp = 1000
  /\ sample.activity = "wedding"
  /\ outcome.pool.result.score = 0
  /\ outcome.app = 0
  /\ outcome.comprehensive = 100

\* The factors of a result, as a set.
FactorsOf(result) == { result.factors[i] : i \in 1..Len(result.factors) }

\* Every reading of w is present and within the inclusive bands of req.
WithinBands(w, req) ==
  /\ w.temperature # NoValue /\ 2 * w.temperature >= req.tmin /\ 2 * w.temperature =< req.tmax
  /\ w.precipitation # NoValue /\ 2 * w.precipitation =< req.pmax
  /\ w.windSpeed # NoValue /\ 2 * w.windSpeed =< req.wmax
  /\ w.humidity # NoValue /\ 2 * w.humidity >= req.hmin /\ 2 * w.humidity =< req.hmax

\* No factor is reported for a dimension whose reading equals its threshold,
\* and a day within the inclusive bands keeps the full score.
NoPenaltyOnThreshold(side, req) ==
  LET w == side.weather
      f == FactorsOf(side.result)
  IN /\ (w.temperature # NoValue /\ 2 * w.temperature = req.tmin) => "Too cold" \notin f
     /\ (w.temperature # NoValue /\ 2 * w.temperature = req.tmax) => "Too hot" \notin f
     /\ (w.precipitation # NoValue /\ 2 * w.precipitation = req.pmax) => "Rain risk" \notin f
     /\ (w.windSpeed # NoValue /\ 2 * w.windSpeed = req.wmax) => "Too windy" \notin f
     /\ (w.humidity # NoValue /\ 2 * w.humidity = req.hmin) => "Too dry" \notin f
     /\ (w.humidity # NoValue /\ 2 * w.humidity = req.hmax) => "Too humid" \notin f
     /\ WithinBands(w, req) => (side.result.score = 200 /\ f = {})

\* C14: a reading exactly on a threshold brings no penalty and no factor
\* for its dimension, in calculateSafetyScore (both paths) and in both
\* calculateSuitabilityScore variants.
C14_NoPenaltyOnThreshold ==
  outcome.scored =>
    /\ NoPenaltyOnThreshold(outcome.pool, RequirementsFor(sample.activity))
    /\ ~outcome.external.threw =>
         NoPenaltyOnThreshold(outcome.external, activityRequirements[sample.activity])
    /\ sample.activity \in AppActivities =>
         LET r == sample.reading
             th == activityThresholds[sample.activity]
         IN (/\ r.temp # NoValue /\ 2 * r.temp >= th.tmin /\ 2 * r.temp =< th.tmax
             /\ r.precip # NoValue /\ 2 * r.precip =< th.pmax
             /\ r.wind # NoValue /\ 2 * r.wind =< th.wmax)
            => (outcome.app = 200 /\ outcome.comprehensive = 200)

C14_Witness ==
  /\ outcome.scored
  /\ sample.shape = "camel"
  /\ sample.activity = "general"
  /\ 2 * sample.reading.temp = activityRequirements["general"].tmax
  /\ outcome.pool.result = [score |-> 200, factors |-> <<>>]

\* C15: scoring a pool candidate or an external alternative never throws,
\* whatever readings are missing and whatever activity the caller passed
\* (ids outside activityRequirements included): no run ends in an
\* exception.
C15_ScoringNeverThrows == \A r \in RunIds : runs[r].state # "failed"

\* C16: a record that lacks humidity, precipitation or wind gets the same
\* penalties (score and factors) whether it is scored as a pool candidate
\* or as an external alternative without a daily record.
C16_MissingTreatedAlike ==
  (/\ outcome.scored
   /\ sample.shape = "camel"
   /\ sample.activity \in Activities
   /\ sample.reading.temp # NoValue
   /\ NoValue \in {sample.reading.hum, sample.reading.precip, sample.reading.wind})
  => outcome.pool.result = outcome.external.result

\* The wind of the sample in km/h: the reading itself when the record
\* carries it as windSpeed, 3.6 times the reading when it carries it as
\* wind_speed (on the record or in conditions).
WindInKmh == IF sample.shape = "camel" THEN sample.reading.wind ELSE ToKmh(sample.reading.wind)

\* C17: a wind reading from an m/s field (wind_speed) is multiplied by 3.6
\* exactly once and a reading from windSpeed is never multiplied, in
\* mappedDaily, in mapDailyToWeather and for an external alternative that
\* is matched to its mapped daily record.
C17_WindConvertedOnce ==
  (outcome.scored /\ sample.reading.wind # NoValue) =>
    /\ outcome.pool.weather.windSpeed = WindInKmh
    /\ outcome.matched.windSpeed = WindInKmh
    /\ outcome.legacy.windSpeed = WindInKmh

\* C18: while the input is mounted, the list in component state equals the
\* JSON array stored under weatherRecentSearches, has at most 5 records, no
\* two with the same id, and is ordered most recently selected first.
C18_RecentSearches ==
  inputMounted =>
    /\ recentSearches = (IF storedSearches.saved THEN JSONParse(storedSearches.text) ELSE <<>>)
    /\ Len(recentSearches) =< 5
    /\ \A i, j \in 1..Len(recentSearches) :
         recentSearches[i].id = recentSearches[j].id => i = j
    /\ recentSearches = Take(selections, 5)

C18_Witness ==
  /\ inputMounted
  /\ Len(selections) = MaxCities
  /\ Len(recentSearches) = 5
  /\ storedSearches.saved
  /\ recentSearches[1] = CityRecord(1)
  /\ recentSearches[5] = CityRecord(2)

\* The results carry an error member.
HasError(res) == res.t = "object" /\ "error" \in DOMAIN res.v

\* C19: a handleAnalyze call with a missing location or date, or with an
\* end date not after the start date, issues no backend request, leaves
\* loading false and gives the user a validation message (an alert, or an
\* error in the results), in App and in ComprehensiveApp.
C19_ValidationRejected ==
  lastCall = "invalid" =>
    /\ pending = 0
    /\ ~appLoading
    /\ alertShown # "" \/ HasError(results)

\* C20: when the backend request fails, the analysis ends with results set
\* to a normalized mock analysis without an error member, loading cleared,
\* in App and in ComprehensiveApp.
C20_FailureFallsBackToMock ==
  lastCall = "failed" =>
    /\ ~appLoading
    /\ results.t = "object"
    /\ ~HasError(results)
    /\ Get(results, "bestDays") # Arr(<<>>)


\* What the boundary renders: the recovery screen or its children.
BoundaryView == IF boundary.hasError THEN "recovery" ELSE "children"

\* C21: hasError is true exactly when an error is kept, and then the
\* recovery screen is shown; Retry leaves hasError=false, error=null, calls
\* onReset exactly when it is provided and lets the children render again;
\* the state changes only when an error is caught, on Retry, or when the
\* page is reloaded.
C21_BoundaryState ==
  /\ boundary.hasError <=> boundary.error # NoError
  /\ boundary.hasError <=> BoundaryView = "recovery"
  /\ lastBoundaryStep = "caught" => (boundary.hasError /\ boundary.error = logged)
  /\ lastBoundaryStep \in {"retry", "retryWithOnReset"} =>
       /\ boundary = [hasError |-> FALSE, error |-> NoError]
       /\ (lastBoundaryStep = "retryWithOnReset") <=> onResetProvided
       /\ ENABLED (RenderChildren /\ UNCHANGED <<scanVars, normVars, scoreVars, recentVars,
                                                analyzeVars>>)
  /\ lastBoundaryStep \in {"rendered", "updated", "none"} => ~boundary.hasError

C21_Witness ==
  /\ lastBoundaryStep = "retryWithOnReset"
  /\ logged.name = "TypeError"
  /\ boundary = [hasError |-> FALSE, error |-> NoError]

\* C22: for a response that carries a daily_analysis list, with or without
\* top_recommendations, bestDays has at most 5 entries, ordered by
\* non-increasing suitabilityScore, each score a number in [0, 100].
BestDaysOf(result) == Get(result, "bestDays").v

C22_TopFiveRanked ==
  (nasaResult # Null /\ Get(nasaResponse, "daily_analysis").t = "array") =>
    LET best == BestDaysOf(nasaResult)
        ScoreOf(i) == Get(best[i], "suitabilityScore")
    IN /\ Len(best) =< 5
       /\ \A i \in 1..Len(best) :
            ScoreOf(i).t = "number" /\ ScoreOf(i).v >= 0 /\ ScoreOf(i).v =< 100
       /\ \A i \in 1..(Len(best) - 1) : ScoreOf(i).v >= ScoreOf(i + 1).v

\* The numeric readings of a field over the daily records of the response.
DailyOf(response) == Get(response, "daily_analysis").v

NumericReadings(key) ==
  LET daily == DailyOf(nasaResponse)
      AsRead(i) == Get(Get(daily[i], "conditions"), key)
  IN { AsRead(i).v : i \in { k \in 1..Len(daily) : AsRead(k).t = "number" } }

Flag(name) == Get(Get(nasaResult, "thresholdAnalysis"), name)

\* The flags that do not depend on the wind and humidity limits.
TemperatureAndRainFlags ==
  /\ Flag("veryHot") = Bool(\E t \in NumericReadings("temperature") : t > 35)
  /\ Flag("veryCold") = Bool(\E t \in NumericReadings("temperature") : t < -10)
  /\ Flag("veryWet") = Bool(\E p \in NumericReadings("precipitation") : p > 20)

Window(name) == Get(Get(nasaResult, "weatherWindow"), name)

ScoresAtLeast60 ==
  { i \in 1..Len(DailyOf(nasaResponse)) :
      Get(DailyOf(nasaResponse)[i], "weather_score").v >= 60 }

RiskOf(d) == IF "overall_risk" \in DOMAIN d.v THEN d.v.overall_risk.v ELSE 0

RECURSIVE TotalRisk(_)
TotalRisk(daily) == IF daily = <<>> THEN 0 ELSE RiskOf(Head(daily)) + TotalRisk(Tail(daily))

C29_WindowMeta ==
  nasaResult # Null =>
    LET daily == DailyOf(nasaResponse)
        n == Len(daily)
    IN /\ Window("totalDays") = Num(n)
       /\ Window("suitableDays") = Num(Cardinality(ScoresAtLeast60))
       /\ Window("suitableDays").v \in 0..n
       /\ Window("riskLevel") =
            Str(IF n = 0 THEN "unknown"
                ELSE IF TotalRisk(daily) > 140 * n THEN "high"
                ELSE IF TotalRisk(daily) > 80 * n THEN "medium" ELSE "low")

\* A list with a record that scores exactly 60 and one without overall_risk
\* has been summarised as of medium risk.
C29_Witness ==
  /\ nasaResult # Null
  /\ \E i \in 1..Len(DailyOf(nasaResponse)) :
       Get(DailyOf(nasaResponse)[i], "weather_score") = Num(60)
  /\ \E i \in 1..Len(DailyOf(nasaResponse)) :
       "overall_risk" \notin DOMAIN DailyOf(nasaResponse)[i].v
  /\ Window("riskLevel") \in {Str("medium"), Str("low")}
  /\ Window("suitableDays").v > 0

\* C23: after n candidates have been scored, the retained array holds
\* min(n, 40) entries whose scores are, as a multiset, the min(n, 40)
\* highest of the scores of those n candidates.
HigherFirst(a, b) == a > b

ScoresOfFirst(n) ==
  [i \in 1..n |-> calculateSafetyScore(scanned.candidates[i],
                                       RequirementsFor(scanned.activity)).score]

RetainedScores == [i \in 1..Len(scored) |-> scored[i].safetyScore]

C23_TopKRetained ==
  /\ Len(scored) = Min2(index, 40)
  /\ SortSeq(RetainedScores, HigherFirst)
       = SubSeq(SortSeq(ScoresOfFirst(index), HigherFirst), 1, Min2(index, 40))

\* More than 40 candidates have been scored, the latest has been retained
\* and an earlier one has been evicted.
C23_Witness ==
  /\ index > 40
  /\ Len(scored) = 40
  /\ \E i \in 1..40 : scored[i].weather = scanned.candidates[index]
  /\ \E j \in 1..40 : \A i \in 1..40 : scored[i].weather # scanned.candidates[j]

\* C24: the batch size starts at 10 and after every batch lies in [6, 60]:
\* it has grown by 4 when the batch took less than 6 ms, has become
\* max(6, floor(0.7 x size)) when it took more than 18 ms, and is unchanged
\* otherwise; a frame callback scores at most the batch size it started with.
C24_BatchSize ==
  /\ dynamicChunk \in 6..60
  /\ lastBatch = NoBatch => dynamicChunk = 10
  /\ lastBatch # NoBatch =>
       /\ lastBatch.scoredNow =< lastBatch.size
       /\ dynamicChunk =
            IF lastBatch.duration < 6 THEN lastBatch.size + 4
            ELSE IF lastBatch.duration > 18
                 THEN (IF (lastBatch.size * 7) \div 10 > 6
                       THEN (lastBatch.size * 7) \div 10 ELSE 6)
                 ELSE lastBatch.size

\* A scan of a full pool has grown its batch size, then shrunk it.
C24_Witness ==
  /\ batchTotal = 150
  /\ lastBatch.size > 30
  /\ lastBatch.duration > 18
  /\ dynamicChunk < lastBatch.size
  /\ lastBatch.scoredNow = lastBatch.size

\* The mapped records of the input, those within [now, now + range days],
\* and the temperature band of the input's activity (half units).
MappedInput == [i \in 1..Len(poolInput.daily) |-> MapDaily(poolInput.daily[i])]

WithinHorizon(w) ==
  w.dateObj >= NowTs /\ w.dateObj <= NowTs + poolInput.range * 24

NearBand(w) ==
  /\ w.temperature # NoValue
  /\ 2 * w.temperature >= RequirementsFor(poolInput.activity).tmin - 2 * 15
  /\ 2 * w.temperature =< RequirementsFor(poolInput.activity).tmax + 2 * 10

\* C25: every candidate of the pool has a numeric temperature t with
\* min - 15 <= t <= max + 10 for the activity's band; the pool has at most
\* 150 entries, the first 150 of the filtered records in input order.
C25_PoolInBandAndCapped ==
  pool # NoPool =>
    /\ \A i \in 1..Len(pool) : NearBand(pool[i])
    /\ Len(pool) =< 150
    /\ \E base \in {MappedInput, SelectSeq(MappedInput, WithinHorizon)} :
         LET filtered == SelectSeq(base, NearBand)
         IN pool = SubSeq(filtered, 1, Min2(150, Len(filtered)))

\* A pool of 150 candidates has been cut from more filtered records, some
\* records having been dropped for their temperature.
C25_Witness ==
  /\ pool # NoPool
  /\ Len(pool) = 150
  /\ Len(SelectSeq(MappedInput, NearBand)) > 150
  /\ \E i \in 1..Len(MappedInput) : ~NearBand(MappedInput[i])

\* C26: the candidates come only from records within [now, now + range
\* days] when a mapped record lies there, and from the whole mapped data
\* when none does; the pre-filter and the cap come after this choice; empty
\* data gives an empty pool.
C26_HorizonOrFallback ==
  pool # NoPool =>
    LET horizon == SelectSeq(MappedInput, WithinHorizon)
        chosen == IF horizon # <<>> THEN horizon ELSE MappedInput
        filtered == SelectSeq(chosen, NearBand)
    IN /\ horizon # <<>> => \A i \in 1..Len(pool) : WithinHorizon(pool[i])
       /\ pool = SubSeq(filtered, 1, Min2(150, Len(filtered)))
       /\ MappedInput = <<>> => pool = <<>>

\* No record lies within the horizon and the pool has been drawn from the
\* whole data.
C26_Witness ==
  /\ pool # NoPool
  /\ pool # <<>>
  /\ SelectSeq(MappedInput, WithinHorizon) = <<>>
  /\ \E i \in 1..Len(pool) : pool[i].dateObj > NowTs + poolInput.range * 24

\* The penalty of a dimension: excess x weight (weight as a fraction
\* num/den, the excess in half units) when the dimension is violated.
PenaltyWhen(violated, excess, num, den) == IF violated THEN (excess * num) \div den ELSE 0

LabelWhen(violated, label) == IF violated THEN <<label>> ELSE <<>>

\* What C27 says of scoring the weather w against the requirements req.
ScoredAsClaimed(side, req) ==
  LET w == side.weather
      Known(x) == x # NoValue
      tooCold == Known(w.temperature) /\ 2 * w.temperature < req.tmin
      tooHot == Known(w.temperature) /\ 2 * w.temperature > req.tmax
      tooWet == Known(w.precipitation) /\ 2 * w.precipitation > req.pmax
      tooWindy == Known(w.windSpeed) /\ 2 * w.windSpeed > req.wmax
      tooDry == req.hmin # 0 /\ Known(w.humidity) /\ 2 * w.humidity < req.hmin
      tooHumid == Known(w.humidity) /\ 2 * w.humidity > req.hmax
      penalties == PenaltyWhen(tooCold, req.tmin - 2 * w.temperature, 3, 1)
                   + PenaltyWhen(tooHot, 2 * w.temperature - req.tmax, 2, 1)
                   + PenaltyWhen(tooWet, 2 * w.precipitation - req.pmax, 5, 1)
                   + PenaltyWhen(tooWindy, 2 * w.windSpeed - req.wmax, 2, 1)
                   + PenaltyWhen(tooDry, req.hmin - 2 * w.humidity, 1, 1)
                   + PenaltyWhen(tooHumid, 2 * w.humidity - req.hmax, 3, 2)
      expected == IF 200 - penalties < 0 THEN 0
                  ELSE IF 200 - penalties > 200 THEN 200 ELSE 200 - penalties
  IN /\ side.result.score = expected
     /\ side.result.factors =
          LabelWhen(tooCold, "Too cold") \o LabelWhen(tooHot, "Too hot")
          \o LabelWhen(tooWet, "Rain risk") \o LabelWhen(tooWindy, "Too windy")
          \o LabelWhen(tooDry, "Too dry") \o LabelWhen(tooHumid, "Too humid")

\* C27: calculateSafetyScore returns max(0, min(100, 100 - sum of
\* penalties)), a violated dimension contributing excess x weight (too cold
\* x3, too hot x2, precipitation x5, wind x2, too dry x1, too humid x1.5),
\* with one factor per violated dimension in that order; too dry is
\* evaluated whenever the activity defines a humidity minimum.
C27_SafetyScore ==
  outcome.scored =>
    /\ ScoredAsClaimed(outcome.pool, RequirementsFor(sample.activity))
    /\ ~outcome.external.threw =>
         ScoredAsClaimed(outcome.external, activityRequirements[sample.activity])

\* A day one point too humid for agricultural work has lost 1.5 points.
C27_Witness ==
  /\ outcome.scored
  /\ sample.activity = "agriculture"
  /\ sample.reading.hum = 91
  /\ outcome.pool.result = [score |-> 197, factors |-> <<"Too humid">>]

\* The result a settled request leaves: for an answer the normalization of
\* its body alone, for a failure App's normalized mock or ComprehensiveApp's
\* error result.
ResultOfOutcome ==
  IF lastCall = "answered"
  THEN IF page = "ComprehensiveApp" THEN results = normalizeNASAResult(raw, form)
       ELSE IF normalizeThrows(raw) THEN Get(results, "error") = Str("Analysis failed unexpectedly.")
       ELSE results = normalizeResults(raw)
  ELSE IF page = "ComprehensiveApp"
       THEN results = Obj(Spread(EMPTY_RESULTS_COMPREHENSIVE,
                                 [error |-> Str("NASA data fetch failed. Please retry."),
                                  location |-> Str(form.location)]))
       ELSE ~HasError(results) /\ Get(results, "bestDays") # Arr(<<>>)

\* C30: at most one analysis request is in flight, loading is true exactly
\* while it is unsettled, and after every settled outcome loading is false
\* and results is the new result alone.
C30_OneRequestLoading ==
  /\ pending =< 1
  /\ appLoading <=> pending = 1
  /\ lastCall \in {"answered", "failed"} =>
       /\ ~appLoading
       /\ results.t = "object"
       /\ ResultOfOutcome

\* A second analysis has been answered after a first one had left an error
\* result.
C30_Witness ==
  /\ lastCall = "answered"
  /\ pending = 0
  /\ ~appLoading
  /\ page = "ComprehensiveApp"
  /\ ~HasError(results)
  /\ Get(results, "bestDays") # Arr(<<>>)

====
